---- MODULE Spec2Model ----
(***************************************************************************)
(* dev-manager: the configuration store (pkg/config), the repository sync  *)
(* driver (pkg/git), the dependency installer (pkg/deps) and the commands  *)
(* of the CLI (cmd/dev-manager).                                           *)
(*                                                                         *)
(* Strings are TLA+ strings, "" being Go's empty string.  A filesystem     *)
(* path is the sequence of its components, <<>> being the empty path.      *)
(* A time.Duration is an integer number of seconds; a time.Time is a       *)
(* record [t, mono, off]: t the instant in ticks, mono whether the value   *)
(* carries a monotonic clock reading, off the offset of its zone from UTC  *)
(* in ticks.  A day of the calendar is Subsec ticks long.                  *)
(* disk is the set of paths that exist, dirty the set of working trees     *)
(* with uncommitted changes.                                               *)
(***************************************************************************)
EXTENDS Integers, Sequences, FiniteSets, TLC

VARIABLES file, disk, dirty, gitBin, clock, cmd, exit, calls, out, loads, saves,
          mem, arg, ret

world == <<file, disk, gitBin, clock>>
run   == <<cmd, exit, calls, out, loads, saves, mem>>
vars  == <<file, disk, dirty, gitBin, clock, cmd, exit, calls, out, loads, saves,
           mem, arg, ret>>

(* ------------------------------ bounds -------------------------------- *)
MaxClock == 2
MaxValidateRepos == 2
MaxValidateTools == 1
MaxRoundTripRepos == 2
MaxTick == 3
Subsec == 2

(* --------------------------- program constants ------------------------ *)
DefaultBranch == "main"
DefaultUpdateFrequency == 7200

Names == {"a", "b"}
URLs == {"u"}
Workspaces == {"", "w"}

(* ------------------------------ helpers ------------------------------- *)
\* mutant: everything from position i on is dropped
RemoveFrom(s, i) == SubSeq(s, 1, i - 1)

\* append(s[:i], s[i+1:]...), i counted from 1
RemoveAt(s, i) == SubSeq(s, 1, i - 1) \o SubSeq(s, i + 1, Len(s))

\* filepath.Join: empty elements are ignored.
Join(a, b) == (IF a = "" THEN <<>> ELSE <<a>>) \o (IF b = "" THEN <<>> ELSE <<b>>)

\* filepath.Dir
Dir(p) == IF Len(p) = 0 THEN <<>> ELSE SubSeq(p, 1, Len(p) - 1)

\* every prefix of p, p included: what os.MkdirAll(p) creates
Prefixes(p) == {SubSeq(p, 1, k) : k \in 0..Len(p)}

(* ------------------------------ pkg/config ---------------------------- *)
\* time.Time{}: UTC
ZeroTime == [t |-> 0, mono |-> FALSE, off |-> 0]

\* the zone of the machine, which time.Now() carries
ZoneOffset == 1

\* the day of the month on which instant 0 falls in UTC
FirstDay == 9

ZeroConfig == [repositories |-> <<>>, tools |-> <<>>, dependencies |-> <<>>,
               updateFrequency |-> 0, workspacePath |-> ""]

NewRepository(name, url, branch, path, lastSync) ==
    [name |-> name, url |-> url, branch |-> branch, path |-> path,
     lastSync |-> lastSync]

\* time.Time.Equal: same instant, whatever the monotonic reading
TimeEqual(a, b) == a.t = b.t

\* time.Duration.String: "0s", "5s", "1m5s", "2h0m0s", with a leading "-"
FormatDuration(d) ==
    LET n == IF d < 0 THEN 0 - d ELSE d
    IN  [neg |-> d < 0,
         parts |-> IF n < 60 THEN <<<<n, "s">>>>
                   ELSE IF n < 3600 THEN <<<<n \div 60, "m">>, <<n % 60, "s">>>>
                   ELSE <<<<n \div 3600, "h">>, <<(n % 3600) \div 60, "m">>,
                          <<n % 60, "s">>>>]

\* the seconds of a sequence of parts such as 1h, 1m, 1s
RECURSIVE SumParts(_)
SumParts(ps) ==
    IF ps = <<>> THEN 0
    ELSE ps[1][1] * (IF ps[1][2] = "h" THEN 3600 ELSE IF ps[1][2] = "m" THEN 60 ELSE 1)
         + SumParts(Tail(ps))

\* time.ParseDuration
ParseDuration(s) == IF s.neg THEN 0 - SumParts(s.parts) ELSE SumParts(s.parts)

\* time.Time as an RFC 3339 timestamp: the date and the time of day in the
\* zone of the value, and the offset of that zone
FormatTime(tm) ==
    [day |-> (tm.t + tm.off) \div Subsec, tod |-> (tm.t + tm.off) % Subsec,
     off |-> tm.off]

ParseTime(s) == [t |-> s.day * Subsec + s.tod - s.off, mono |-> FALSE, off |-> s.off]

\* mutant: LastSync is left out of the document, as an unexported field is
MarshalRepositoryWithoutLastSync(r) ==
    [name |-> r.name, url |-> r.url, branch |-> r.branch, path |-> r.path,
     lastSync |-> FormatTime(ZeroTime)]

\* a Repository in the document, a value under each key of its yaml tags
MarshalRepository(r) ==
    [name |-> r.name, url |-> r.url, branch |-> r.branch, path |-> r.path,
     lastSync |-> FormatTime(r.lastSync)]

UnmarshalRepository(n) ==
    [name |-> n.name, url |-> n.url, branch |-> n.branch, path |-> n.path,
     lastSync |-> ParseTime(n.lastSync)]

\* yaml.Marshal of a Config: the document written to the file
Marshal(c) ==
    [repositories |-> [i \in 1..Len(c.repositories) |->
                          MarshalRepository(c.repositories[i])],
     tools |-> c.tools,
     dependencies |-> c.dependencies,
     updateFrequency |-> FormatDuration(c.updateFrequency),
     workspacePath |-> c.workspacePath]

\* yaml.Unmarshal of a document into a fresh Config
Unmarshal(d) ==
    [repositories |-> [i \in 1..Len(d.repositories) |->
                          UnmarshalRepository(d.repositories[i])],
     tools |-> d.tools,
     dependencies |-> d.dependencies,
     updateFrequency |-> ParseDuration(d.updateFrequency),
     workspacePath |-> d.workspacePath]

\* the configuration file: absent, unreadable or unparsable, of length zero,
\* a document, or a document with a value that does not decode, doc being
\* what of it does
AbsentFile == [state |-> "absent", doc |-> Marshal(ZeroConfig)]
EmptyFile == [state |-> "empty", doc |-> Marshal(ZeroConfig)]
BadFile == [state |-> "bad", doc |-> Marshal(ZeroConfig)]
FileOf(c) == [state |-> "ok", doc |-> Marshal(c)]
UndecodedFile(c) == [state |-> "undecodable", doc |-> Marshal(c)]

\* mutant: a missing file is reported like any other read failure
LoadMissingIsError(f) ==
    IF f.state /= "ok" THEN [err |-> TRUE, config |-> ZeroConfig]
    ELSE [err |-> FALSE, config |-> Unmarshal(f.doc)]

\* Manager.Load: a missing file is an empty Config and no error; so is a file
\* of length zero, which yaml.Unmarshal accepts and decodes into nothing.
\* yaml.Unmarshal decodes into the fresh Config of the manager, so after a
\* value that does not decode the manager holds what was decoded and Load
\* returns the error.
Load(f) ==
    IF f.state = "absent" THEN [err |-> FALSE, config |-> ZeroConfig]
    ELSE IF f.state = "bad" THEN [err |-> TRUE, config |-> ZeroConfig]
    ELSE IF f.state = "empty" THEN [err |-> FALSE, config |-> ZeroConfig]
    ELSE IF f.state = "undecodable" THEN [err |-> TRUE, config |-> Unmarshal(f.doc)]
    ELSE [err |-> FALSE, config |-> Unmarshal(f.doc)]

\* Manager.Save: the file written when MkdirAll, Marshal and WriteFile succeed
Save(c) == FileOf(c)

\* The document is written front to back, and a write that fails can stop
\* after any byte.  The units of the document are the stops that decode to
\* different Configs, in document order: for each element of a list the dash
\* that opens it, then one unit for each character of each of its strings
\* (a path being the string of its components), and for a timestamp its
\* date up to the first digit of a day of two digits (2026-10-3 of
\* 2026-10-30), then its date and then its time of day; then one unit for
\* each part of updateFrequency and one for each character of workspacePath.
\* A stop elsewhere decodes like the unit before it, or does not parse, or
\* parses and does not decode (inside the first key of an element of a list,
\* inside a timestamp or inside a duration: TornStops).
RECURSIVE PathUnits(_)
PathUnits(p) == IF p = <<>> THEN 0 ELSE Len(Head(p)) + PathUnits(Tail(p))

\* the stops of a timestamp that decode: the day of the month it shows is
\* FirstDay + its day; a day of two digits is written 1x, 2x or 3x, and its
\* first digit is a day
TimeUnits(tm) == IF FirstDay + FormatTime(tm).day >= 10 THEN 3 ELSE 2

Units(kind, x) ==
    IF kind = "repository"
    THEN 1 + Len(x.name) + Len(x.url) + Len(x.branch) + PathUnits(x.path)
         + TimeUnits(x.lastSync)
    ELSE IF kind = "tool"
    THEN 1 + Len(x.name) + Len(x.configPath) + Len(x.backupPath)
    ELSE 1 + Len(x.name) + Len(x.version) + Len(x.source) + Len(x.path)

\* how many of the n units of a value are among the first k units, the value
\* starting after `before` units
Taken(k, before, n) ==
    IF k - before <= 0 THEN 0 ELSE IF k - before >= n THEN n ELSE k - before

\* a plain scalar cut after j characters: the null of no character is the
\* empty string
PrefixString(s, j) == IF j <= 0 THEN "" ELSE IF j >= Len(s) THEN s ELSE SubSeq(s, 1, j)

RECURSIVE PrefixPath(_, _)
PrefixPath(p, j) ==
    IF p = <<>> \/ j <= 0 THEN <<>>
    ELSE <<PrefixString(Head(p), j)>> \o PrefixPath(Tail(p), j - Len(Head(p)))

\* a timestamp cut after its date decodes as midnight UTC of the date it
\* shows, which is the date in the zone of the value
DateOnly(tm) == [t |-> FormatTime(tm).day * Subsec, mono |-> FALSE, off |-> 0]

\* a timestamp cut after j of its units; cut after the first digit of its
\* day it decodes as midnight UTC of that day of the month
PrefixTime(tm, j) ==
    IF j <= 0 THEN ZeroTime
    ELSE IF j >= TimeUnits(tm) THEN ParseTime(FormatTime(tm))
    ELSE IF j = TimeUnits(tm) - 1 THEN DateOnly(tm)
    ELSE [t |-> ((FirstDay + FormatTime(tm).day) \div 10 - FirstDay) * Subsec,
          mono |-> FALSE, off |-> 0]

\* a duration string cut after j of its parts: "1h1m1s" cut to "1h"
PrefixDuration(d, j) ==
    IF j <= 0 THEN 0
    ELSE ParseDuration([neg |-> FormatDuration(d).neg,
                        parts |-> SubSeq(FormatDuration(d).parts, 1,
                                         Taken(j, 0, Len(FormatDuration(d).parts)))])

\* the element decoded from the first k units of element x: a value that was
\* not written keeps its zero value
PrefixElement(kind, x, k) ==
    IF kind = "repository"
    THEN LET b2 == 1 + Len(x.name)
             b3 == b2 + Len(x.url)
             b4 == b3 + Len(x.branch)
             b5 == b4 + PathUnits(x.path)
         IN  [name |-> PrefixString(x.name, Taken(k, 1, Len(x.name))),
              url |-> PrefixString(x.url, Taken(k, b2, Len(x.url))),
              branch |-> PrefixString(x.branch, Taken(k, b3, Len(x.branch))),
              path |-> PrefixPath(x.path, Taken(k, b4, PathUnits(x.path))),
              lastSync |-> PrefixTime(x.lastSync, Taken(k, b5, TimeUnits(x.lastSync)))]
    ELSE IF kind = "tool"
    THEN LET b2 == 1 + Len(x.name)
             b3 == b2 + Len(x.configPath)
         IN  [name |-> PrefixString(x.name, Taken(k, 1, Len(x.name))),
              configPath |-> PrefixString(x.configPath, Taken(k, b2, Len(x.configPath))),
              backupPath |-> PrefixString(x.backupPath, Taken(k, b3, Len(x.backupPath)))]
    ELSE LET b2 == 1 + Len(x.name)
             b3 == b2 + Len(x.version)
             b4 == b3 + Len(x.source)
         IN  [name |-> PrefixString(x.name, Taken(k, 1, Len(x.name))),
              version |-> PrefixString(x.version, Taken(k, b2, Len(x.version))),
              source |-> PrefixString(x.source, Taken(k, b3, Len(x.source))),
              path |-> PrefixString(x.path, Taken(k, b4, Len(x.path)))]

RECURSIVE ListUnits(_, _)
ListUnits(kind, xs) ==
    IF xs = <<>> THEN 0 ELSE Units(kind, Head(xs)) + ListUnits(kind, Tail(xs))

\* the list decoded from the first k units of list xs
RECURSIVE PrefixList(_, _, _)
PrefixList(kind, xs, k) ==
    IF k <= 0 \/ xs = <<>> THEN <<>>
    ELSE <<PrefixElement(kind, Head(xs), k)>>
         \o PrefixList(kind, Tail(xs), k - Units(kind, Head(xs)))

ConfigUnits(c) ==
    ListUnits("repository", c.repositories) + ListUnits("tool", c.tools)
    + ListUnits("dependency", c.dependencies)
    + Len(FormatDuration(c.updateFrequency).parts) + Len(c.workspacePath)

\* the Config that yaml.Unmarshal decodes from the first k units of the
\* document of c
PrefixConfig(c, k) ==
    LET nr == ListUnits("repository", c.repositories)
        nt == ListUnits("tool", c.tools)
        nd == ListUnits("dependency", c.dependencies)
        nf == Len(FormatDuration(c.updateFrequency).parts)
    IN  [repositories |-> PrefixList("repository", c.repositories, k),
         tools |-> PrefixList("tool", c.tools, k - nr),
         dependencies |-> PrefixList("dependency", c.dependencies, k - nr - nt),
         updateFrequency |-> PrefixDuration(c.updateFrequency, k - nr - nt - nd),
         workspacePath |-> PrefixString(c.workspacePath,
                                        Taken(k, nr + nt + nd + nf, Len(c.workspacePath)))]

\* the character of string s that unit j of it writes, "" outside the string
LastChar(s, j) == IF j >= 1 /\ j <= Len(s) THEN SubSeq(s, j, j) ELSE ""

RECURSIVE PathCutChar(_, _)
PathCutChar(p, j) ==
    IF p = <<>> THEN "" ELSE LastChar(Head(p), j) \o PathCutChar(Tail(p), j - Len(Head(p)))

ElementCutChar(kind, x, k) ==
    IF kind = "repository"
    THEN LastChar(x.name, k - 1) \o LastChar(x.url, k - 1 - Len(x.name))
         \o LastChar(x.branch, k - 1 - Len(x.name) - Len(x.url))
         \o PathCutChar(x.path, k - 1 - Len(x.name) - Len(x.url) - Len(x.branch))
    ELSE IF kind = "tool"
    THEN LastChar(x.name, k - 1) \o LastChar(x.configPath, k - 1 - Len(x.name))
         \o LastChar(x.backupPath, k - 1 - Len(x.name) - Len(x.configPath))
    ELSE LastChar(x.name, k - 1) \o LastChar(x.version, k - 1 - Len(x.name))
         \o LastChar(x.source, k - 1 - Len(x.name) - Len(x.version))
         \o LastChar(x.path, k - 1 - Len(x.name) - Len(x.version) - Len(x.source))

RECURSIVE ListCutChar(_, _, _)
ListCutChar(kind, xs, k) ==
    IF xs = <<>> THEN ""
    ELSE ElementCutChar(kind, Head(xs), k)
         \o ListCutChar(kind, Tail(xs), k - Units(kind, Head(xs)))

\* the last character of the scalar that the first k units end in, "" when
\* they end in no string
CutChar(c, k) ==
    LET nr == ListUnits("repository", c.repositories)
        nt == ListUnits("tool", c.tools)
        nd == ListUnits("dependency", c.dependencies)
        nf == Len(FormatDuration(c.updateFrequency).parts)
    IN  ListCutChar("repository", c.repositories, k)
        \o ListCutChar("tool", c.tools, k - nr)
        \o ListCutChar("dependency", c.dependencies, k - nr - nt)
        \o LastChar(c.workspacePath, k - nr - nt - nd - nf)

\* how a call of Save ends: "ok"; "mkdir" when MkdirAll or Marshal fails, before
\* the file is touched; os.WriteFile opens the file itself with O_TRUNC and
\* writes in place, so a failure after the open leaves it of length zero
\* ("truncated") or holding a prefix of the document: one that does not parse
\* ("partial"), the one that ends with unit k (PrefixOutcome(k)), or one that
\* parses and does not decode after unit k (TornOutcome(k))
SaveOutcomes == {"ok", "mkdir", "truncated", "partial"}
PrefixOutcome(k) == "prefix" \o ToString(k)

\* the prefixes of the document of c
PrefixesOf(c) == {PrefixOutcome(k) : k \in 1..ConfigUnits(c)}

\* the stops that parse and do not decode, each the number of units decoded
\* when yaml.Unmarshal meets the value it returns the error of.  Inside the
\* first key of an element of a list the element is a scalar, which does not
\* decode into the struct and is dropped: the list holds the elements before
\* it.  Inside the lastSync of a repository, at none of its stops, the
\* decoding ends at once and the repository, stored once all of it is
\* decoded, is still the zero Repository the list was made with.  Inside
\* updateFrequency, after no whole number of parts, the duration is skipped.
TornStops(c) ==
    LET nr == ListUnits("repository", c.repositories)
        nt == ListUnits("tool", c.tools)
        nd == ListUnits("dependency", c.dependencies)
        rs == {ListUnits("repository", SubSeq(c.repositories, 1, j - 1)) :
                  j \in 1..Len(c.repositories)}
    IN  rs \cup {k + 1 : k \in rs}
        \cup {nr + ListUnits("tool", SubSeq(c.tools, 1, j - 1)) : j \in 1..Len(c.tools)}
        \cup {nr + nt + ListUnits("dependency", SubSeq(c.dependencies, 1, j - 1)) :
                  j \in 1..Len(c.dependencies)}
        \cup {nr + nt + nd}

TornOutcome(k) == "torn" \o ToString(k)

TornsOf(c) == {TornOutcome(k) : k \in TornStops(c)}

\* the file after Save(c) ending as sv on file f: a plain scalar that ends in
\* a colon does not parse; a prefix of every unit is the document
WriteFile(f, c, sv) ==
    IF sv = "ok" THEN Save(c)
    ELSE IF sv = "mkdir" THEN f
    ELSE IF sv = "truncated" THEN EmptyFile
    ELSE IF sv = "partial" THEN BadFile
    ELSE IF sv \in PrefixesOf(c)
    THEN LET k == CHOOSE n \in 1..ConfigUnits(c) : PrefixOutcome(n) = sv
         IN  IF CutChar(c, k) = ":" THEN BadFile ELSE FileOf(PrefixConfig(c, k))
    ELSE IF sv \in TornsOf(c)
    THEN LET k == CHOOSE n \in TornStops(c) : TornOutcome(n) = sv
         IN  UndecodedFile(PrefixConfig(c, k))
    ELSE FileOf(c)

(* --------------------------- Config.Validate -------------------------- *)
Entry(kind, index, name, missing) ==
    [kind |-> kind, index |-> index, name |-> name, missing |-> missing]

\* mutant: only the first missing field of a repository is recorded
RepoErrorsFirstOnly(repo) ==
    IF repo.name = "" THEN <<"missing name">>
    ELSE IF repo.url = "" THEN <<"missing url">>
    ELSE IF repo.path = <<>> THEN <<"missing path">>
    ELSE IF repo.branch = "" THEN <<"missing branch">>
    ELSE <<>>

\* the "missing ..." strings of one repository, in the order they are appended
RepoErrors(repo) ==
    (IF repo.name = "" THEN <<"missing name">> ELSE <<>>)
    \o (IF repo.url = "" THEN <<"missing url">> ELSE <<>>)
    \o (IF repo.path = <<>> THEN <<"missing path">> ELSE <<>>)
    \o (IF repo.branch = "" THEN <<"missing branch">> ELSE <<>>)

ToolErrors(tool) ==
    (IF tool.name = "" THEN <<"missing name">> ELSE <<>>)
    \o (IF tool.configPath = "" THEN <<"missing configPath">> ELSE <<>>)

\* the loop over c.Repositories: one entry per repository with errors,
\* tagged with its 0-based index and its name
RECURSIVE ValidateRepositories(_, _)
ValidateRepositories(repos, i) ==
    IF i > Len(repos) THEN <<>>
    ELSE (IF Len(RepoErrors(repos[i])) > 0
          THEN <<Entry("repository", i - 1, repos[i].name, RepoErrors(repos[i]))>>
          ELSE <<>>)
         \o ValidateRepositories(repos, i + 1)

RECURSIVE ValidateTools(_, _)
ValidateTools(tools, i) ==
    IF i > Len(tools) THEN <<>>
    ELSE (IF Len(ToolErrors(tools[i])) > 0
          THEN <<Entry("tool", i - 1, tools[i].name, ToolErrors(tools[i]))>>
          ELSE <<>>)
         \o ValidateTools(tools, i + 1)

\* mutant: returns at the first violation
ValidateStopsAtFirst(c) ==
    LET all == (IF c.workspacePath = ""
                THEN <<Entry("workspacePath", -1, "", <<>>)>> ELSE <<>>)
               \o (IF c.updateFrequency <= 0
                   THEN <<Entry("updateFrequency", -1, "", <<>>)>> ELSE <<>>)
               \o ValidateRepositories(c.repositories, 1)
               \o ValidateTools(c.tools, 1)
    IN  IF all = <<>> THEN <<>> ELSE <<all[1]>>

\* Config.Validate, the accumulating variant: the Errors of the
\* ValidationError it returns, <<>> when it returns nil
Validate(c) ==
    (IF c.workspacePath = ""
     THEN <<Entry("workspacePath", -1, "", <<>>)>> ELSE <<>>)
    \o (IF c.updateFrequency <= 0
        THEN <<Entry("updateFrequency", -1, "", <<>>)>> ELSE <<>>)
    \o ValidateRepositories(c.repositories, 1)
    \o ValidateTools(c.tools, 1)

\* the first error of the repository loop of the earlier variant: name, url
\* and path are checked, branch is not
RECURSIVE FirstRepositoryError(_, _)
FirstRepositoryError(repos, i) ==
    IF i > Len(repos) THEN <<>>
    ELSE IF repos[i].name = ""
         THEN <<Entry("repository", i - 1, "", <<"missing name">>)>>
    ELSE IF repos[i].url = ""
         THEN <<Entry("repository", i - 1, "", <<"missing url">>)>>
    ELSE IF repos[i].path = <<>>
         THEN <<Entry("repository", i - 1, "", <<"missing path">>)>>
    ELSE FirstRepositoryError(repos, i + 1)

RECURSIVE FirstToolError(_, _)
FirstToolError(tools, i) ==
    IF i > Len(tools) THEN <<>>
    ELSE IF tools[i].name = ""
         THEN <<Entry("tool", i - 1, "", <<"missing name">>)>>
    ELSE IF tools[i].configPath = ""
         THEN <<Entry("tool", i - 1, "", <<"missing configPath">>)>>
    ELSE FirstToolError(tools, i + 1)

\* Config.Validate, the earlier variant kept in types.go: returns the first
\* error found (a sequence of at most one entry), <<>> when it returns nil
ValidateFirstError(c) ==
    IF c.workspacePath = "" THEN <<Entry("workspacePath", -1, "", <<>>)>>
    ELSE IF c.updateFrequency <= 0 THEN <<Entry("updateFrequency", -1, "", <<>>)>>
    ELSE IF FirstRepositoryError(c.repositories, 1) /= <<>>
         THEN FirstRepositoryError(c.repositories, 1)
    ELSE FirstToolError(c.tools, 1)

(* ------------------------------- pkg/git ------------------------------ *)
\* What the environment does to one Clone or Update call: the step that
\* fails if it is reached ("none": every external step succeeds).
\* A rebase fails either leaving the tree as it was ("rebase") or stopped on a
\* conflict ("conflict").
Outcomes == {"none", "mkdir", "clone", "fetch", "rebase", "conflict"}

\* exit status of the external command `step` under outcome o
ExitOf(o, step) ==
    IF o = step \/ (step = "rebase" /\ o = "conflict") THEN 1 ELSE 0

\* os.Stat(p) finds something: the empty path never exists
Stat(d, p) == p /= <<>> /\ p \in d

\* os.MkdirAll(p): p and its missing parents
MkdirAll(d, p) == d \cup (Prefixes(p) \ {<<>>})

\* mutant: the branch is taken as given
NewKeepsBranch(path, url, branch) == [Path |-> path, URL |-> url, Branch |-> branch]

\* git.New: an empty branch becomes "main"
New(path, url, branch) ==
    [Path |-> path, URL |-> url,
     Branch |-> IF branch = "" THEN DefaultBranch ELSE branch]

GitCall(op, r) == [op |-> op, path |-> r.Path, url |-> r.URL, branch |-> r.Branch]

\* mutant: a failed clone also removes the parent directory it was run in
GitCloneCleansParent(bin, d, r, status) ==
    IF bin = "git" /\ status = 0 THEN MkdirAll(d, r.Path)
    ELSE {q \in d : ~(Len(q) >= Len(Dir(r.Path))
                      /\ SubSeq(q, 1, Len(Dir(r.Path))) = Dir(r.Path))}

\* what `git clone` leaves on disk: the real git creates the target on exit 0
\* and removes it on failure; the mock binary of internal/testutil/mockgit
\* only prints and exits
GitCloneEffect(bin, d, r, status) ==
    IF bin = "git" /\ status = 0 THEN MkdirAll(d, r.Path) ELSE d

Result(err, d, cs) == [err |-> err, disk |-> d, calls |-> cs]

\* mutant: the clone does not look at the target first
CloneOverwrites(r, d, bin, o) ==
    IF o = "mkdir" THEN Result("failed to create directory", d, <<>>)
    ELSE LET d1 == MkdirAll(d, Dir(r.Path))
             status == ExitOf(o, "clone")
             d2 == GitCloneEffect(bin, d1, r, status)
         IN  IF status /= 0
             THEN Result("failed to clone repository", d2, <<GitCall("clone", r)>>)
             ELSE Result("", d2, <<GitCall("clone", r)>>)

\* Repository.Clone
Clone(r, d, bin, o) ==
    IF Stat(d, r.Path) THEN Result("path already exists", d, <<>>)
    ELSE IF o = "mkdir" THEN Result("failed to create directory", d, <<>>)
    ELSE LET d1 == MkdirAll(d, Dir(r.Path))
             status == ExitOf(o, "clone")
             d2 == GitCloneEffect(bin, d1, r, status)
         IN  IF status /= 0
             THEN Result("failed to clone repository", d2, <<GitCall("clone", r)>>)
             ELSE Result("", d2, <<GitCall("clone", r)>>)

\* mutant: the rebase runs whatever the fetch returned
UpdateIgnoresFetch(r, d, bin, o) ==
    IF ~Stat(d, r.Path) THEN Clone(r, d, bin, o)
    ELSE IF ExitOf(o, "fetch") /= 0
         THEN Result("failed to fetch updates", d,
                     <<GitCall("fetch", r), GitCall("rebase", r)>>)
    ELSE IF ExitOf(o, "rebase") /= 0
         THEN Result("failed to rebase", d,
                     <<GitCall("fetch", r), GitCall("rebase", r)>>)
    ELSE Result("", d, <<GitCall("fetch", r), GitCall("rebase", r)>>)

\* Repository.Update
Update(r, d, bin, o) ==
    IF ~Stat(d, r.Path) THEN Clone(r, d, bin, o)
    ELSE IF ExitOf(o, "fetch") /= 0
         THEN Result("failed to fetch updates", d, <<GitCall("fetch", r)>>)
    ELSE IF ExitOf(o, "rebase") /= 0
         THEN Result("failed to rebase", d,
                     <<GitCall("fetch", r), GitCall("rebase", r)>>)
    ELSE Result("", d, <<GitCall("fetch", r), GitCall("rebase", r)>>)

\* the working trees with uncommitted changes after Update(r, d, bin, o): a
\* rebase of the real git that stops on a conflict leaves unmerged files in
\* the tree; fetch and clone leave no uncommitted change
UpdateTrees(r, d, dty, bin, o) ==
    IF bin = "git" /\ Stat(d, r.Path) /\ ExitOf(o, "fetch") = 0 /\ o = "conflict"
    THEN dty \cup {r.Path}
    ELSE dty

\* the git binaries: the real one, the mock binary configured with no output
\* and the mock binary configured with an output
GitBinaries == {"git", "mockgit", "mockgit-output"}

\* stdout of `git -C path status --porcelain`: one line per changed file for
\* the real git; the mock binary prints its configured output whatever the
\* subcommand
GitStatusOutput(bin, dty, r) ==
    IF bin = "git" THEN (IF r.Path \in dty THEN <<"M">> ELSE <<>>)
    ELSE IF bin = "mockgit-output" THEN <<"Cloning into 'repo'...">>
    ELSE <<>>

\* mutant: the output of git status is not looked at
IsCleanIgnoresOutput(r, dty, bin, status) ==
    IF status /= 0 THEN [err |-> "failed to check repository status", clean |-> FALSE]
    ELSE [err |-> "", clean |-> TRUE]

\* Repository.IsClean: status is the exit status of git status
IsClean(r, dty, bin, status) ==
    IF status /= 0 THEN [err |-> "failed to check repository status", clean |-> FALSE]
    ELSE [err |-> "", clean |-> Len(GitStatusOutput(bin, dty, r)) = 0]

(* ------------------------------- pkg/deps ----------------------------- *)
\* filepath.Join of a path and one more element
JoinPath(p, b) == p \o (IF b = "" THEN <<>> ELSE <<b>>)

\* os.RemoveAll(p): p and everything under it; the empty path removes nothing
RemoveAll(d, p) ==
    IF p = <<>> THEN d
    ELSE {q \in d : ~(Len(q) >= Len(p) /\ SubSeq(q, 1, Len(p)) = p)}

\* the sources with the suffix .tar.gz, and those with the suffix .zip
GoSource == "https://go.dev/dl/go1.21.0.darwin-amd64.tar.gz"
NodeSource == "https://nodejs.org/dist/v20.11.1/node-v20.11.1-darwin-x64.tar.gz"
TarGzSources == {"s.tar.gz", GoSource, NodeSource}
ZipSources == {"s.zip"}
Sources == {"s.tar.gz", "s.zip", "s"}

\* What the environment does to one Install call: the step that fails if it
\* is reached ("none": every step succeeds).
InstallOutcomes ==
    {"none", "mkdir", "download", "tmp", "extract", "create", "remove", "rename", "chmod"}

Installed(err, d) == [err |-> err, disk |-> d]

\* deps.Manager.Install on the manager of directory dir
Install(dir, dep, force, d, o) ==
    LET d1 == MkdirAll(d, dir)
        depPath == JoinPath(dir, dep.name)
        d2 == RemoveAll(d1, depPath)
        d3 == d2 \cup {depPath}
    IN  \* os.MkdirAll fails on the empty path
        IF o = "mkdir" \/ dir = <<>>
        THEN Installed("failed to create install directory", d)
        ELSE IF Stat(d1, depPath) /\ ~force THEN Installed("already installed", d1)
        ELSE IF o = "download" THEN Installed("failed to download", d1)
        ELSE IF o = "tmp" THEN Installed("failed to create temp directory", d1)
        ELSE IF dep.source \in TarGzSources /\ o = "extract"
             THEN Installed("failed to extract tar.gz", d1)
        ELSE IF dep.source \in ZipSources
             THEN Installed("zip extraction not implemented yet", d1)
        \* a plain binary: os.Create of tmpDir/name, which is tmpDir itself
        \* when the name is empty
        ELSE IF dep.source \notin TarGzSources /\ (o = "create" \/ dep.name = "")
             THEN Installed("failed to create output file", d1)
        ELSE IF dep.source \notin TarGzSources /\ o = "extract"
             THEN Installed("failed to copy file", d1)
        ELSE IF o = "remove" /\ Stat(d1, depPath)
             THEN Installed("failed to remove existing installation", d1)
        ELSE IF o = "rename" THEN Installed("failed to move to final location", d2)
        ELSE IF o = "chmod" THEN Installed("failed to make executable", d3)
        ELSE Installed("", d3)

\* deps.Manager.Remove: rm is whether os.RemoveAll succeeds
Remove(dir, dep, d, rm) ==
    IF rm THEN Installed("", RemoveAll(d, JoinPath(dir, dep.name)))
    ELSE Installed("failed to remove", d)

(* --------------------------- cmd/dev-manager -------------------------- *)
Msg(text, name) == [msg |-> text, name |-> name]

\* time.Now(): the next instant, with a monotonic clock reading
Now == [t |-> clock + 1, mono |-> TRUE, off |-> ZoneOffset]

\* mutant: the loop compares the wrong field
FirstIndexByURL(repos, name) ==
    IF \E i \in 1..Len(repos) : repos[i].url = name
    THEN CHOOSE i \in 1..Len(repos) :
            /\ repos[i].url = name
            /\ \A j \in 1..(i - 1) : repos[j].url /= name
    ELSE 0

\* index of the first repository named name, 0 when there is none
FirstIndex(repos, name) ==
    IF \E i \in 1..Len(repos) : repos[i].name = name
    THEN CHOOSE i \in 1..Len(repos) :
            /\ repos[i].name = name
            /\ \A j \in 1..(i - 1) : repos[j].name /= name
    ELSE 0

\* what one command did: its inputs, name, exit status, git invocations, messages,
\* number of Load and Save calls, and the Config its manager holds at the end;
\* no command edits the files of a working tree
Did(a, c, e, cs, o, l, s, m) ==
    /\ arg' = a
    /\ cmd' = c
    /\ exit' = e
    /\ calls' = cs
    /\ out' = o
    /\ loads' = l
    /\ saves' = s
    /\ mem' = m

\* a command that runs no rebase and removes no directory leaves the working
\* trees as they were
Ran(a, c, e, cs, o, l, s, m) ==
    /\ dirty' = dirty
    /\ Did(a, c, e, cs, o, l, s, m)

\* the working trees with uncommitted changes that are left on disk d
TreesOn(dty, d) == dty \cap d

\* the working trees with uncommitted changes after the loop of repos sync-all
RECURSIVE SyncLoopTrees(_, _, _, _, _, _)
SyncLoopTrees(repos, i, d, dty, bin, os) ==
    IF i > Len(repos) THEN dty
    ELSE LET repo == repos[i]
             r == New(repo.path, repo.url, repo.branch)
         IN  SyncLoopTrees(repos, i + 1, Update(r, d, bin, os[i]).disk,
                           UpdateTrees(r, d, dty, bin, os[i]), bin, os)

\* mutant: the body of the loop of repos sync-all stops at the first error
RECURSIVE SyncLoopAborts(_, _, _, _, _)
SyncLoopAborts(repos, i, d, bin, os) ==
    IF i > Len(repos) THEN [disk |-> d, calls |-> <<>>, out |-> <<>>]
    ELSE LET repo == repos[i]
             u == Update(New(repo.path, repo.url, repo.branch), d, bin, os[i])
             rest == SyncLoopAborts(repos, i + 1, u.disk, bin, os)
         IN  IF u.err /= ""
             THEN [disk |-> u.disk, calls |-> u.calls,
                   out |-> <<Msg("Syncing repository", repo.name),
                             Msg("failed to sync repository", repo.name)>>]
             ELSE [disk |-> rest.disk,
                   calls |-> u.calls \o rest.calls,
                   out |-> <<Msg("Syncing repository", repo.name),
                             Msg("Synced repository", repo.name)>> \o rest.out]

\* the loop of repos sync-all from repository i on: os[i] is what the
\* environment does to the Update of repository i
RECURSIVE SyncLoop(_, _, _, _, _)
SyncLoop(repos, i, d, bin, os) ==
    IF i > Len(repos) THEN [disk |-> d, calls |-> <<>>, out |-> <<>>]
    ELSE LET repo == repos[i]
             u == Update(New(repo.path, repo.url, repo.branch), d, bin, os[i])
             rest == SyncLoop(repos, i + 1, u.disk, bin, os)
         IN  [disk |-> rest.disk,
              calls |-> u.calls \o rest.calls,
              out |-> <<Msg("Syncing repository", repo.name),
                        Msg(IF u.err /= "" THEN "failed to sync repository"
                            ELSE "Synced repository", repo.name)>> \o rest.out]

\* mutant: the clone is attempted before the configuration is saved, and a
\* failed clone ends the command
RepoAddClonesFirst(changed, name, url, resp, o, sv) ==
    LET ld == Load(file)
        cfg == ld.config
        repoPath == Join(cfg.workspacePath, name)
        newRepo == NewRepository(name, url, "main", repoPath, Now)
        cfg2 == [cfg EXCEPT !.repositories = Append(@, newRepo)]
        cl == IF resp \in {"", "Y", "y"}
              THEN Clone(New(newRepo.path, newRepo.url, newRepo.branch), disk, gitBin, o)
              ELSE Result("", disk, <<>>)
        in == [name |-> name, url |-> url, resp |-> resp, o |-> o, sv |-> sv]
    IN  /\ clock < MaxClock
        /\ UNCHANGED <<gitBin, ret>>
        /\ IF ~changed \/ name = "" \/ url = ""
           THEN /\ Ran(in, "repos add", IF changed THEN 1 ELSE 0, <<>>,
                       <<Msg("help", "")>>, 0, 0, ZeroConfig)
                /\ UNCHANGED <<file, disk, clock>>
           ELSE IF ld.err \/ FirstIndex(cfg.repositories, name) /= 0
           THEN /\ Ran(in, "repos add", 1, <<>>, <<Msg("already exists", name)>>, 1, 0,
                       cfg)
                /\ UNCHANGED <<file, disk, clock>>
           ELSE IF cl.err /= ""
           THEN /\ Ran(in, "repos add", 1, cl.calls,
                       <<Msg("failed to clone repository", name)>>, 1, 0, cfg)
                /\ disk' = cl.disk
                /\ clock' = clock + 1
                /\ UNCHANGED file
           ELSE /\ Ran(in, "repos add", IF sv = "ok" THEN 0 ELSE 1, cl.calls,
                       <<Msg("Added repository", name)>>, 1, 1, cfg2)
                /\ file' = WriteFile(file, cfg2, sv)
                /\ clock' = clock + 1
                /\ disk' = cl.disk

\* repos add (repos.go; the root-level variant in main.go has the same steps)
RepoAdd(changed, name, url, resp, o, sv) ==
    LET ld == Load(file)
        cfg == ld.config
        repoPath == Join(cfg.workspacePath, name)
        newRepo == NewRepository(name, url, "main", repoPath, Now)
        cfg2 == [cfg EXCEPT !.repositories = Append(@, newRepo)]
        cl == Clone(New(newRepo.path, newRepo.url, newRepo.branch), disk, gitBin, o)
        added == <<Msg("Added repository", name), Msg("Would you like to clone", name)>>
        in == [name |-> name, url |-> url, resp |-> resp, o |-> o, sv |-> sv]
    IN  /\ clock < MaxClock
        /\ UNCHANGED <<gitBin, ret>>
        /\ IF ~changed
           THEN /\ Ran(in, "repos add", 0, <<>>, <<Msg("help", "")>>, 0, 0, ZeroConfig)
                /\ UNCHANGED <<file, disk, clock>>
           ELSE IF name = ""
           THEN /\ Ran(in, "repos add", 1, <<>>, <<Msg("repository name is required", "")>>,
                       0, 0, ZeroConfig)
                /\ UNCHANGED <<file, disk, clock>>
           ELSE IF url = ""
           THEN /\ Ran(in, "repos add", 1, <<>>, <<Msg("repository URL is required", "")>>,
                       0, 0, ZeroConfig)
                /\ UNCHANGED <<file, disk, clock>>
           ELSE IF ld.err
           THEN /\ Ran(in, "repos add", 1, <<>>, <<Msg("failed to load config", "")>>,
                       1, 0, ld.config)
                /\ UNCHANGED <<file, disk, clock>>
           ELSE IF FirstIndex(cfg.repositories, name) /= 0
           THEN /\ Ran(in, "repos add", 1, <<>>, <<Msg("already exists", name)>>, 1, 0, cfg)
                /\ UNCHANGED <<file, disk, clock>>
           ELSE IF sv /= "ok"
           THEN /\ Ran(in, "repos add", 1, <<>>, <<Msg("failed to save configuration", "")>>,
                       1, 1, cfg2)
                /\ file' = WriteFile(file, cfg2, sv)
                /\ clock' = clock + 1
                /\ UNCHANGED disk
           ELSE IF resp \notin {"", "Y", "y"}
           THEN /\ Ran(in, "repos add", 0, <<>>, added, 1, 1, cfg2)
                /\ file' = Save(cfg2)
                /\ clock' = clock + 1
                /\ UNCHANGED disk
           ELSE /\ Ran(in, "repos add", IF cl.err /= "" THEN 1 ELSE 0, cl.calls,
                       added \o <<Msg("Cloning repository", name),
                                  Msg(IF cl.err /= "" THEN "failed to clone repository"
                                      ELSE "Repository cloned successfully", name)>>,
                       1, 1, cfg2)
                /\ file' = Save(cfg2)
                /\ clock' = clock + 1
                /\ disk' = cl.disk

\* mutant: a name that matches nothing is not an error
RepoRemoveIgnoresMissing(name, sv) ==
    LET ld == Load(file)
        cfg == ld.config
        i == FirstIndex(cfg.repositories, name)
        cfg2 == IF i = 0 THEN cfg ELSE [cfg EXCEPT !.repositories = RemoveAt(@, i)]
        in == [name |-> name, sv |-> sv]
    IN  /\ UNCHANGED <<disk, gitBin, clock, ret>>
        /\ IF name = ""
           THEN /\ Ran(in, "repos remove", 1, <<>>,
                       <<Msg("repository name is required", "")>>, 0, 0, ZeroConfig)
                /\ UNCHANGED file
           ELSE IF ld.err
           THEN /\ Ran(in, "repos remove", 1, <<>>, <<Msg("failed to load config", "")>>,
                       1, 0, ld.config)
                /\ UNCHANGED file
           ELSE /\ Ran(in, "repos remove", IF sv = "ok" THEN 0 ELSE 1, <<>>,
                       <<Msg(IF sv = "ok" THEN "Removed repository"
                             ELSE "failed to save configuration", name)>>, 1, 1, cfg2)
                /\ file' = WriteFile(file, cfg2, sv)

\* repos remove (repos.go)
RepoRemove(name, sv) ==
    LET ld == Load(file)
        cfg == ld.config
        i == FirstIndex(cfg.repositories, name)
        cfg2 == [cfg EXCEPT !.repositories = RemoveAt(@, i)]
        in == [name |-> name, sv |-> sv]
    IN  /\ UNCHANGED <<disk, gitBin, clock, ret>>
        /\ IF name = ""
           THEN /\ Ran(in, "repos remove", 1, <<>>,
                       <<Msg("repository name is required", "")>>, 0, 0, ZeroConfig)
                /\ UNCHANGED file
           ELSE IF ld.err
           THEN /\ Ran(in, "repos remove", 1, <<>>, <<Msg("failed to load config", "")>>,
                       1, 0, ld.config)
                /\ UNCHANGED file
           ELSE IF i = 0
           THEN /\ Ran(in, "repos remove", 1, <<>>, <<Msg("not found", name)>>, 1, 0, cfg)
                /\ UNCHANGED file
           ELSE IF sv /= "ok"
           THEN /\ Ran(in, "repos remove", 1, <<>>,
                       <<Msg("failed to save configuration", "")>>, 1, 1, cfg2)
                /\ file' = WriteFile(file, cfg2, sv)
           ELSE /\ Ran(in, "repos remove", 0, <<>>, <<Msg("Removed repository", name)>>,
                       1, 1, cfg2)
                /\ file' = Save(cfg2)

\* repos remove (main.go): name is --name, idx the number typed at the prompt
\* (0: no number), resp the answer to the question about the directory, rm
\* whether os.RemoveAll succeeds.  selectedRepo points into the slice, so after
\* the removal it shows the element that moved into its place.
RepoRemoveMain(name, idx, resp, rm, sv) ==
    LET ld == Load(file)
        cfg == ld.config
        n == Len(cfg.repositories)
        i == IF name = "" THEN idx ELSE FirstIndex(cfg.repositories, name)
        selectedRepo == cfg.repositories[i]
        cfg2 == [cfg EXCEPT !.repositories = RemoveAt(@, i)]
        shown == IF i < n THEN cfg.repositories[i + 1].name ELSE selectedRepo.name
        exists == Stat(disk, selectedRepo.path)
        asked == IF ~exists THEN <<>>
                 ELSE <<Msg("Repository directory exists", selectedRepo.name),
                        Msg(IF resp \in {"y", "Y"} THEN "Removed repository directory"
                            ELSE "Keeping repository directory", selectedRepo.name)>>
        d2 == IF exists /\ resp \in {"y", "Y"} THEN RemoveAll(disk, selectedRepo.path)
              ELSE disk
        in == [name |-> name, idx |-> idx, resp |-> resp, rm |-> rm, sv |-> sv]
    IN  /\ UNCHANGED <<gitBin, clock, ret>>
        /\ IF ld.err
           THEN /\ Ran(in, "repos remove (main.go)", 1, <<>>,
                       <<Msg("failed to load config", "")>>, 1, 0, ld.config)
                /\ UNCHANGED <<file, disk>>
           ELSE IF name = "" /\ n = 0
           THEN /\ Ran(in, "repos remove (main.go)", 1, <<>>,
                       <<Msg("No repositories found", "")>>, 1, 0, cfg)
                /\ UNCHANGED <<file, disk>>
           ELSE IF name = "" /\ (idx < 1 \/ idx > n)
           THEN /\ Ran(in, "repos remove (main.go)", 1, <<>>,
                       <<Msg("Invalid selection", "")>>, 1, 0, cfg)
                /\ UNCHANGED <<file, disk>>
           ELSE IF i = 0
           THEN /\ Ran(in, "repos remove (main.go)", 1, <<>>, <<Msg("not found", name)>>,
                       1, 0, cfg)
                /\ UNCHANGED <<file, disk>>
           ELSE IF exists /\ resp \in {"y", "Y"} /\ ~rm
           THEN /\ Ran(in, "repos remove (main.go)", 1, <<>>,
                       <<Msg("Repository directory exists", selectedRepo.name),
                         Msg("failed to remove repository directory", "")>>, 1, 0, cfg)
                /\ UNCHANGED <<file, disk>>
           ELSE IF sv /= "ok"
           THEN /\ Did(in, "repos remove (main.go)", 1, <<>>,
                       asked \o <<Msg("failed to save configuration", "")>>, 1, 1, cfg2)
                /\ file' = WriteFile(file, cfg2, sv)
                /\ disk' = d2
                /\ dirty' = TreesOn(dirty, d2)
           ELSE /\ Did(in, "repos remove (main.go)", 0, <<>>,
                       asked \o <<Msg("Removed repository", shown)>>, 1, 1, cfg2)
                /\ file' = Save(cfg2)
                /\ disk' = d2
                /\ dirty' = TreesOn(dirty, d2)

\* mutant: the listing reads the configuration file again before printing
RepoListLoadsTwice ==
    LET ld == Load(file)
        cfg == ld.config
    IN  /\ UNCHANGED <<world, ret>>
        /\ IF ld.err
           THEN Ran(<<>>, "repos list", 1, <<>>, <<Msg("failed to load config", "")>>,
                    1, 0, ld.config)
           ELSE Ran(<<>>, "repos list", 0, <<>>,
                    [i \in 1..Len(cfg.repositories) |->
                        Msg("Name", cfg.repositories[i].name)], 2, 0, cfg)

\* repos list
RepoList ==
    LET ld == Load(file)
        cfg == ld.config
    IN  /\ UNCHANGED <<world, ret>>
        /\ IF ld.err
           THEN Ran(<<>>, "repos list", 1, <<>>, <<Msg("failed to load config", "")>>,
                    1, 0, ld.config)
           ELSE IF Len(cfg.repositories) = 0
           THEN Ran(<<>>, "repos list", 0, <<>>, <<Msg("No repositories configured", "")>>,
                    1, 0, cfg)
           ELSE Ran(<<>>, "repos list", 0, <<>>,
                    [i \in 1..Len(cfg.repositories) |->
                        Msg("Name", cfg.repositories[i].name)], 1, 0, cfg)

\* mutant: the command stamps the repositories and saves the configuration
RepoSyncAllSaves(os) ==
    LET ld == Load(file)
        cfg == ld.config
        lp == SyncLoop(cfg.repositories, 1, disk, gitBin, os)
        cfg2 == [cfg EXCEPT !.repositories =
                    [i \in 1..Len(cfg.repositories) |->
                        [cfg.repositories[i] EXCEPT !.lastSync = Now]]]
    IN  /\ UNCHANGED <<gitBin, clock, ret>>
        /\ IF ld.err
           THEN /\ Ran(os, "repos sync-all", 1, <<>>, <<Msg("failed to load config", "")>>,
                       1, 0, ld.config)
                /\ UNCHANGED <<file, disk>>
           ELSE /\ Did(os, "repos sync-all", 0, lp.calls, lp.out, 1, 1, cfg2)
                /\ file' = Save(cfg2)
                /\ disk' = lp.disk
                /\ dirty' = SyncLoopTrees(cfg.repositories, 1, disk, dirty, gitBin, os)

\* repos sync-all
RepoSyncAll(os) ==
    LET ld == Load(file)
        cfg == ld.config
        lp == SyncLoop(cfg.repositories, 1, disk, gitBin, os)
    IN  /\ UNCHANGED <<file, gitBin, clock, ret>>
        /\ IF ld.err
           THEN /\ Ran(os, "repos sync-all", 1, <<>>, <<Msg("failed to load config", "")>>,
                       1, 0, ld.config)
                /\ UNCHANGED disk
           ELSE /\ Did(os, "repos sync-all", 0, lp.calls, lp.out, 1, 0, cfg)
                /\ disk' = lp.disk
                /\ dirty' = SyncLoopTrees(cfg.repositories, 1, disk, dirty, gitBin, os)

\* repos sync (repos.go) and the root-level sync (main.go): both only print
RepoSync ==
    /\ Ran(<<>>, "repos sync", 0, <<>>, <<Msg("Syncing a specific repository", "")>>,
           0, 0, ZeroConfig)
    /\ UNCHANGED <<world, ret>>

\* the workspace init falls back to: filepath.Join(home, "dev")
DefaultWorkspace == "home/dev"

\* the defaults init fills in after validation
InitDefaults(cfg, ws) ==
    [cfg EXCEPT !.workspacePath = IF @ = "" THEN ws ELSE @,
                !.updateFrequency = IF @ = 0 THEN DefaultUpdateFrequency ELSE @]

\* mutant: init fills in the defaults before it validates
InitCmdDefaultsFirst(workspace, home, sv) ==
    LET ws == IF workspace = "" THEN DefaultWorkspace ELSE workspace
        ld == Load(file)
        cfg2 == InitDefaults(ld.config, ws)
        report == Validate(cfg2)
        in == [workspace |-> workspace, home |-> home, sv |-> sv]
    IN  /\ UNCHANGED <<disk, gitBin, clock>>
        /\ IF workspace = "" /\ home = ""
           THEN /\ Ran(in, "init", 1, <<>>, <<Msg("failed to get home directory", "")>>,
                       0, 0, ZeroConfig)
                /\ ret' = <<>>
                /\ UNCHANGED file
           ELSE IF home = ""
           THEN /\ Ran(in, "init", 1, <<>>,
                       <<Msg("failed to create config manager", "")>>, 0, 0, ZeroConfig)
                /\ ret' = <<>>
                /\ UNCHANGED file
           ELSE IF ld.err
           THEN /\ Ran(in, "init", 1, <<>>, <<Msg("failed to load config", "")>>,
                       1, 0, ld.config)
                /\ ret' = <<>>
                /\ UNCHANGED file
           ELSE IF report /= <<>>
           THEN /\ Ran(in, "init", 1, <<>>, <<Msg("invalid configuration", "")>>, 1, 0, cfg2)
                /\ ret' = report
                /\ UNCHANGED file
           ELSE /\ Ran(in, "init", IF sv = "ok" THEN 0 ELSE 1, <<>>,
                       <<Msg(IF sv = "ok" THEN "Configuration initialized"
                             ELSE "failed to save configuration", "")>>, 1, 1, cfg2)
                /\ ret' = <<>>
                /\ file' = WriteFile(file, cfg2, sv)

\* init (config.go; main.go has the same steps): workspace is --workspace, home
\* what os.UserHomeDir returns ("" when it fails): init asks for it when no
\* workspace is given, and config.NewManager asks for it again, the command
\* having no flag that names the file; ret is the validation report
InitCmd(workspace, home, sv) ==
    LET ws == IF workspace = "" THEN DefaultWorkspace ELSE workspace
        ld == Load(file)
        cfg == ld.config
        report == Validate(cfg)
        cfg2 == InitDefaults(cfg, ws)
        in == [workspace |-> workspace, home |-> home, sv |-> sv]
    IN  /\ UNCHANGED <<disk, gitBin, clock>>
        /\ IF workspace = "" /\ home = ""
           THEN /\ Ran(in, "init", 1, <<>>, <<Msg("failed to get home directory", "")>>,
                       0, 0, ZeroConfig)
                /\ ret' = <<>>
                /\ UNCHANGED file
           ELSE IF home = ""
           THEN /\ Ran(in, "init", 1, <<>>,
                       <<Msg("failed to create config manager", "")>>, 0, 0, ZeroConfig)
                /\ ret' = <<>>
                /\ UNCHANGED file
           ELSE IF ld.err
           THEN /\ Ran(in, "init", 1, <<>>, <<Msg("failed to load config", "")>>,
                       1, 0, ld.config)
                /\ ret' = <<>>
                /\ UNCHANGED file
           ELSE IF report /= <<>>
           THEN /\ Ran(in, "init", 1, <<>>, <<Msg("invalid configuration", "")>>, 1, 0, cfg)
                /\ ret' = report
                /\ UNCHANGED file
           ELSE /\ Ran(in, "init", IF sv = "ok" THEN 0 ELSE 1, <<>>,
                       <<Msg(IF sv = "ok" THEN "Configuration initialized"
                             ELSE "failed to save configuration", "")>>, 1, 1, cfg2)
                /\ ret' = <<>>
                /\ file' = WriteFile(file, cfg2, sv)

\* deps.New(filepath.Join(cfg.WorkspacePath, "deps")).InstallDir
InstallDir(cfg) == Join(cfg.workspacePath, "deps")

\* the dependencies init adds to a configuration that has none
DefaultDependencies ==
    <<[name |-> "go", version |-> "1.21.0", source |-> GoSource, path |-> ""],
      [name |-> "node", version |-> "20.11.1", source |-> NodeSource, path |-> ""]>>

\* the loop of init --install-deps from dependency i on: a failed installation
\* is logged and the loop goes on
RECURSIVE InitInstallLoop(_, _, _, _, _)
InitInstallLoop(dir, ds, i, d, os) ==
    IF i > Len(ds) THEN [disk |-> d, out |-> <<>>]
    ELSE LET ins == Install(dir, ds[i], FALSE, d, os[i])
             rest == InitInstallLoop(dir, ds, i + 1, ins.disk, os)
         IN  [disk |-> rest.disk,
              out |-> <<Msg(IF ins.err /= "" THEN "failed to install" ELSE "Installed",
                            ds[i].name)>> \o rest.out]

\* init of the revision that knows dependencies: installDeps is --install-deps,
\* os[i] what the environment does to the Install of dependency i
InitCmdDeps(workspace, home, installDeps, sv, os) ==
    LET ws == IF workspace = "" THEN DefaultWorkspace ELSE workspace
        ld == Load(file)
        cfg == ld.config
        report == Validate(cfg)
        cfg1 == InitDefaults(cfg, ws)
        cfg2 == IF Len(cfg1.dependencies) = 0
                THEN [cfg1 EXCEPT !.dependencies = DefaultDependencies]
                ELSE cfg1
        lp == InitInstallLoop(InstallDir(cfg2), cfg2.dependencies, 1, disk, os)
        in == [workspace |-> workspace, home |-> home, sv |-> sv,
               installDeps |-> installDeps, os |-> os]
    IN  /\ UNCHANGED <<gitBin, clock>>
        /\ IF workspace = "" /\ home = ""
           THEN /\ Ran(in, "init", 1, <<>>, <<Msg("failed to get home directory", "")>>,
                       0, 0, ZeroConfig)
                /\ ret' = <<>>
                /\ UNCHANGED <<file, disk>>
           ELSE IF home = ""
           THEN /\ Ran(in, "init", 1, <<>>,
                       <<Msg("failed to create config manager", "")>>, 0, 0, ZeroConfig)
                /\ ret' = <<>>
                /\ UNCHANGED <<file, disk>>
           ELSE IF ld.err
           THEN /\ Ran(in, "init", 1, <<>>, <<Msg("failed to load config", "")>>,
                       1, 0, ld.config)
                /\ ret' = <<>>
                /\ UNCHANGED <<file, disk>>
           ELSE IF report /= <<>>
           THEN /\ Ran(in, "init", 1, <<>>, <<Msg("invalid configuration", "")>>, 1, 0, cfg)
                /\ ret' = report
                /\ UNCHANGED <<file, disk>>
           ELSE IF sv /= "ok"
           THEN /\ Ran(in, "init", 1, <<>>, <<Msg("failed to save configuration", "")>>,
                       1, 1, cfg2)
                /\ ret' = <<>>
                /\ file' = WriteFile(file, cfg2, sv)
                /\ UNCHANGED disk
           ELSE /\ Ran(in, "init", 0, <<>>,
                       <<Msg("Configuration initialized", "")>>
                       \o (IF installDeps
                           THEN <<Msg("Installing dependencies...", "")>> \o lp.out
                           ELSE <<>>), 1, 1, cfg2)
                /\ ret' = <<>>
                /\ file' = Save(cfg2)
                /\ disk' = IF installDeps THEN lp.disk ELSE disk

\* config validate: ret is the validation report it prints
ConfigValidate ==
    LET ld == Load(file)
        cfg == ld.config
        report == Validate(cfg)
    IN  /\ UNCHANGED world
        /\ IF ld.err
           THEN /\ Ran(<<>>, "config validate", 1, <<>>,
                       <<Msg("failed to load config", "")>>, 1, 0, ld.config)
                /\ ret' = <<>>
           ELSE IF report /= <<>>
           THEN /\ Ran(<<>>, "config validate", 1, <<>>,
                       <<Msg("Validating configuration", ""),
                         Msg("Configuration validation failed", "")>>, 1, 0, cfg)
                /\ ret' = report
           ELSE /\ Ran(<<>>, "config validate", 0, <<>>,
                       <<Msg("Validating configuration", ""),
                         Msg("Configuration is valid!", "")>>, 1, 0, cfg)
                /\ ret' = <<>>

\* mutant: a configuration that cannot be loaded is shown as an empty one
ConfigShowIgnoresLoadError(raw) ==
    LET cfg == Load(file).config
        in == [raw |-> raw]
    IN  /\ UNCHANGED <<world, ret>>
        /\ IF raw
           THEN Ran(in, "config show", 0, <<>>, <<Msg("yaml", "")>>, 1, 0, cfg)
           ELSE Ran(in, "config show", 0, <<>>,
                    <<Msg("Workspace path", cfg.workspacePath)>> \o
                    [i \in 1..Len(cfg.repositories) |->
                        Msg("Name", cfg.repositories[i].name)], 1, 0, cfg)

\* config show
ConfigShow(raw) ==
    LET ld == Load(file)
        cfg == ld.config
        in == [raw |-> raw]
    IN  /\ UNCHANGED <<world, ret>>
        /\ IF ld.err
           THEN Ran(in, "config show", 1, <<>>, <<Msg("failed to load config", "")>>,
                    1, 0, ld.config)
           ELSE IF raw
           THEN Ran(in, "config show", 0, <<>>, <<Msg("yaml", "")>>, 1, 0, cfg)
           ELSE IF Len(cfg.repositories) = 0
           THEN Ran(in, "config show", 0, <<>>,
                    <<Msg("Workspace path", cfg.workspacePath),
                      Msg("No repositories configured", "")>>, 1, 0, cfg)
           ELSE Ran(in, "config show", 0, <<>>,
                    <<Msg("Workspace path", cfg.workspacePath)>> \o
                    [i \in 1..Len(cfg.repositories) |->
                        Msg("Name", cfg.repositories[i].name)], 1, 0, cfg)

(* ------------------------------ deps commands ------------------------ *)
NewDependency(name, version, source) ==
    [name |-> name, version |-> version, source |-> source, path |-> ""]

\* index of the first dependency called name, 0 when there is none
DependencyIndex(ds, name) ==
    IF \E i \in 1..Len(ds) : ds[i].name = name
    THEN CHOOSE i \in 1..Len(ds) :
            ds[i].name = name /\ \A j \in 1..(i - 1) : ds[j].name /= name
    ELSE 0

\* deps add: --name is marked required, so without the flag (given is false)
\* cobra returns its error before RunE is called
DepsAdd(given, name, version, source, resp, o, sv) ==
    LET ld == Load(file)
        cfg == ld.config
        newDep == NewDependency(name, version, source)
        cfg2 == [cfg EXCEPT !.dependencies = Append(@, newDep)]
        ins == Install(InstallDir(cfg2), newDep, FALSE, disk, o)
        added == <<Msg("Added dependency", name), Msg("Would you like to install", "")>>
        in == [given |-> given, name |-> name, version |-> version, source |-> source,
               resp |-> resp, o |-> o, sv |-> sv]
    IN  /\ UNCHANGED <<gitBin, clock, ret>>
        /\ IF ~given
           THEN /\ Ran(in, "deps add", 1, <<>>, <<Msg("required flag(s) not set", "name")>>,
                       0, 0, ZeroConfig)
                /\ UNCHANGED <<file, disk>>
           ELSE IF ld.err
           THEN /\ Ran(in, "deps add", 1, <<>>, <<Msg("failed to load config", "")>>,
                       1, 0, ld.config)
                /\ UNCHANGED <<file, disk>>
           ELSE IF name = ""
           THEN /\ Ran(in, "deps add", 1, <<>>, <<Msg("dependency name is required", "")>>,
                       1, 0, cfg)
                /\ UNCHANGED <<file, disk>>
           ELSE IF DependencyIndex(cfg.dependencies, name) /= 0
           THEN /\ Ran(in, "deps add", 1, <<>>, <<Msg("already exists", name)>>, 1, 0, cfg)
                /\ UNCHANGED <<file, disk>>
           ELSE IF sv /= "ok"
           THEN /\ Ran(in, "deps add", 1, <<>>, <<Msg("failed to save configuration", "")>>,
                       1, 1, cfg2)
                /\ file' = WriteFile(file, cfg2, sv)
                /\ UNCHANGED disk
           ELSE IF resp \notin {"", "Y", "y"}
           THEN /\ Ran(in, "deps add", 0, <<>>,
                       added \o <<Msg("will be installed during the next sync", name)>>,
                       1, 1, cfg2)
                /\ file' = Save(cfg2)
                /\ UNCHANGED disk
           ELSE /\ Ran(in, "deps add", IF ins.err /= "" THEN 1 ELSE 0, <<>>,
                       added \o <<Msg(IF ins.err /= "" THEN "failed to install"
                                      ELSE "Installed", name)>>, 1, 1, cfg2)
                /\ file' = Save(cfg2)
                /\ disk' = ins.disk

\* deps list
DepsList ==
    LET ld == Load(file)
        cfg == ld.config
    IN  /\ UNCHANGED <<world, ret>>
        /\ IF ld.err
           THEN Ran(<<>>, "deps list", 1, <<>>, <<Msg("failed to load config", "")>>,
                    1, 0, ld.config)
           ELSE Ran(<<>>, "deps list", 0, <<>>,
                    [i \in 1..Len(cfg.dependencies) |->
                        Msg(IF Stat(disk, JoinPath(InstallDir(cfg), cfg.dependencies[i].name))
                            THEN "installed" ELSE "not installed",
                            cfg.dependencies[i].name)], 1, 0, cfg)

\* deps remove: name is --name, selection the number typed at the prompt
DepsRemove(name, selection, sv, rm) ==
    LET ld == Load(file)
        cfg == ld.config
        n == Len(cfg.dependencies)
        i == IF name /= "" THEN DependencyIndex(cfg.dependencies, name) ELSE selection
        cfg2 == [cfg EXCEPT !.dependencies = RemoveAt(@, i)]
        shown == IF name /= "" THEN name ELSE cfg.dependencies[i].name
        rmv == Remove(InstallDir(cfg2), cfg.dependencies[i], disk, rm)
        in == [name |-> name, selection |-> selection, sv |-> sv, rm |-> rm]
    IN  /\ UNCHANGED <<gitBin, clock, ret>>
        /\ IF ld.err
           THEN /\ Ran(in, "deps remove", 1, <<>>, <<Msg("failed to load config", "")>>,
                       1, 0, ld.config)
                /\ UNCHANGED <<file, disk>>
           ELSE IF n = 0
           THEN /\ Ran(in, "deps remove", 1, <<>>, <<Msg("no dependencies found", "")>>,
                       1, 0, cfg)
                /\ UNCHANGED <<file, disk>>
           ELSE IF name = "" /\ (selection < 1 \/ selection > n)
           THEN /\ Ran(in, "deps remove", 1, <<>>, <<Msg("invalid selection", "")>>,
                       1, 0, cfg)
                /\ UNCHANGED <<file, disk>>
           ELSE IF i = 0
           THEN /\ Ran(in, "deps remove", 1, <<>>, <<Msg("not found", name)>>, 1, 0, cfg)
                /\ UNCHANGED <<file, disk>>
           ELSE IF sv /= "ok"
           THEN /\ Ran(in, "deps remove", 1, <<>>,
                       <<Msg("failed to save configuration", "")>>, 1, 1, cfg2)
                /\ file' = WriteFile(file, cfg2, sv)
                /\ UNCHANGED disk
           ELSE /\ Ran(in, "deps remove", IF rmv.err /= "" THEN 1 ELSE 0, <<>>,
                       <<Msg(IF rmv.err /= "" THEN "failed to remove"
                             ELSE "Removed dependency", shown)>>, 1, 1, cfg2)
                /\ file' = Save(cfg2)
                /\ disk' = rmv.disk

\* the loop of deps sync from dependency i on: it returns at the first error
RECURSIVE DepsSyncLoop(_, _, _, _, _)
DepsSyncLoop(dir, ds, i, d, os) ==
    IF i > Len(ds) THEN [err |-> "", disk |-> d, out |-> <<>>]
    ELSE LET ins == Install(dir, ds[i], FALSE, d, os[i])
             rest == DepsSyncLoop(dir, ds, i + 1, ins.disk, os)
         IN  IF ins.err /= ""
             THEN [err |-> ins.err, disk |-> ins.disk,
                   out |-> <<Msg("failed to install", ds[i].name)>>]
             ELSE [err |-> rest.err, disk |-> rest.disk,
                   out |-> <<Msg("Installed", ds[i].name)>> \o rest.out]

\* deps sync: os[i] is what the environment does to the Install of
\* dependency i
DepsSync(os) ==
    LET ld == Load(file)
        cfg == ld.config
        lp == DepsSyncLoop(InstallDir(cfg), cfg.dependencies, 1, disk, os)
    IN  /\ UNCHANGED <<file, gitBin, clock, ret>>
        /\ IF ld.err
           THEN /\ Ran(os, "deps sync", 1, <<>>, <<Msg("failed to load config", "")>>,
                       1, 0, ld.config)
                /\ UNCHANGED disk
           ELSE /\ Ran(os, "deps sync", IF lp.err /= "" THEN 1 ELSE 0, <<>>, lp.out,
                       1, 0, cfg)
                /\ disk' = lp.disk

(* ------------------------- calls into the packages -------------------- *)
\* repositories handed to the driver directly
LibRepos == {New(Join("w", n), "u", b) : n \in Names, b \in {"", "dev"}}

\* r.Update() on its own: ret keeps the error, whether the path existed
\* when the call started, and what the environment did
CallUpdate(r, o) ==
    LET u == Update(r, disk, gitBin, o)
    IN  /\ Did(r, "Update", IF u.err /= "" THEN 1 ELSE 0, u.calls, <<>>, 0, 0, mem)
        /\ dirty' = UpdateTrees(r, disk, dirty, gitBin, o)
        /\ ret' = [err |-> u.err, present |-> Stat(disk, r.Path), o |-> o]
        /\ disk' = u.disk
        /\ UNCHANGED <<file, gitBin, clock>>

\* r.Clone() on its own
CallClone(r, o) ==
    LET c == Clone(r, disk, gitBin, o)
    IN  /\ Ran(r, "Clone", IF c.err /= "" THEN 1 ELSE 0, c.calls, <<>>, 0, 0, mem)
        /\ ret' = [err |-> c.err, present |-> Stat(disk, r.Path), o |-> o]
        /\ disk' = c.disk
        /\ UNCHANGED <<file, gitBin, clock>>

\* r.IsClean() on its own
CallIsClean(r, status) ==
    LET c == IsClean(r, dirty, gitBin, status)
    IN  /\ Ran(r, "IsClean", IF c.err /= "" THEN 1 ELSE 0, <<GitCall("status", r)>>, <<>>,
               0, 0, mem)
        /\ ret' = [err |-> c.err, clean |-> c.clean, status |-> status]
        /\ UNCHANGED world

\* m.Load() on its own: ret keeps the error, the Config the manager holds
\* and the state the file was in
CallLoad ==
    LET ld == Load(file)
    IN  /\ Ran(arg, "Load", IF ld.err THEN 1 ELSE 0, <<>>, <<>>, 1, 0, ld.config)
        /\ ret' = [err |-> ld.err, config |-> ld.config, state |-> file.state]
        /\ UNCHANGED world

(* ------------------------------ the program --------------------------- *)
Repo(name, branch) == NewRepository(name, "u", branch, Join("w", name), ZeroTime)

ConfigOf(repos) == [ZeroConfig EXCEPT !.repositories = repos,
                                      !.updateFrequency = DefaultUpdateFrequency,
                                      !.workspacePath = "w"]

InitFiles == {AbsentFile, BadFile,
              FileOf(ConfigOf(<<>>)),
              FileOf(ConfigOf(<<Repo("a", "dev")>>))}

InitDisks == {{}, MkdirAll({}, Join("w", "a"))}

Idle ==
    /\ cmd = "none"
    /\ exit = 0
    /\ calls = <<>>
    /\ out = <<>>
    /\ loads = 0
    /\ saves = 0
    /\ mem = ZeroConfig
    /\ arg = <<>>
    /\ ret = <<>>

Init ==
    /\ file \in InitFiles
    /\ disk \in InitDisks
    /\ dirty = {}
    /\ gitBin \in {"git", "mockgit"}
    /\ clock = 0
    /\ Idle

\* the working trees whose upstream is let conflict with the local commits
ConflictTrees == {Join("w", "a")}

\* the outcomes that differ for a call on path p: a step that is not
\* reached cannot fail
Reached(d, p) ==
    IF ~Stat(d, p) THEN {"none", "mkdir", "clone"}
    ELSE IF gitBin = "git" /\ p \in ConflictTrees
    THEN {"none", "fetch", "rebase", "conflict"}
    ELSE {"none", "fetch", "rebase"}

\* the stops of a failed write that the steps of Spec take: after the first
\* dash, after the first name, and after the dash that follows an element
\* without strings; SpecPartial takes every stop
SampleCuts == {1, 2, 4}

AddStep ==
    \E changed \in BOOLEAN, name \in Names \cup {""}, url \in URLs \cup {""},
       resp \in {"", "n"}, o \in {"none", "mkdir", "clone"},
       sv \in SaveOutcomes \cup {PrefixOutcome(k) : k \in SampleCuts} :
       /\ (~changed => name = "" /\ url = "")
       /\ (~changed \/ sv /= "ok" \/ resp = "n" => o = "none")
       \* a Save that is not reached cannot fail
       /\ (\/ name = ""
           \/ url = ""
           \/ Load(file).err
           \/ FirstIndex(Load(file).config.repositories, name) /= 0)
          => (sv = "ok" /\ resp = "" /\ o = "none")
       \* nor is the question asked after a Save that failed
       /\ (sv /= "ok" => resp = "")
       /\ RepoAdd(changed, name, url, resp, o, sv)

RemoveStep ==
    \E name \in Names \cup {""}, sv \in SaveOutcomes \cup {PrefixOutcome(k) : k \in SampleCuts} :
       /\ (\/ name = ""
           \/ Load(file).err
           \/ FirstIndex(Load(file).config.repositories, name) = 0) => sv = "ok"
       /\ RepoRemove(name, sv)

SyncAllStep ==
    LET repos == Load(file).config.repositories
    IN  \E os \in [1..Len(repos) -> Outcomes] :
           /\ \A i \in 1..Len(repos) : os[i] \in Reached(disk, repos[i].path)
           /\ RepoSyncAll(os)

UpdateStep == \E r \in LibRepos : \E o \in Reached(disk, r.Path) : CallUpdate(r, o)

CloneStep == \E r \in LibRepos, o \in {"none", "mkdir", "clone"} : CallClone(r, o)

\* the repository commands on one configuration file
Next ==
    \/ AddStep
    \/ RemoveStep
    \/ RepoList
    \/ CallLoad

Spec == Init /\ [][Next]_vars

\* the sync driver on one configuration of three repositories; the mock
\* binaries are run on clean trees, their output not depending on the tree
InitSync ==
    /\ file \in {FileOf(ConfigOf(<<Repo("a", "main"), Repo("b", ""), Repo("c", "dev")>>)),
                 FileOf(ConfigOf(<<>>)), AbsentFile, BadFile}
    /\ disk \in InitDisks
    /\ dirty \in {{}, disk \cap {Join("w", "a")}}
    /\ gitBin \in GitBinaries
    /\ (gitBin /= "git" => dirty = {})
    /\ clock = 1
    /\ Idle

\* the real git status fails outside a working tree
IsCleanStep ==
    \E r \in LibRepos, status \in {0, 1} :
       /\ (gitBin = "git" /\ ~Stat(disk, r.Path)) => status = 1
       /\ CallIsClean(r, status)

\* repos add ahead of a sync: the clone is declined, fails or succeeds
SyncAddStep ==
    \E name \in {"a"}, resp \in {"", "n"}, o \in {"none", "clone"} :
       /\ (resp = "n" => o = "none")
       /\ o \in Reached(disk, Join(Load(file).config.workspacePath, name))
       /\ RepoAdd(TRUE, name, "u", resp, o, "ok")

NextSync ==
    \/ SyncAllStep
    \/ UpdateStep
    \/ CloneStep
    \/ IsCleanStep
    \/ SyncAddStep

SpecSync == InitSync /\ [][NextSync]_vars

(* ---------------------- every command of the CLI --------------------- *)
Dep(name) == NewDependency(name, "1", "s.tar.gz")

\* a valid configuration, one that fails validation twice, and one whose only
\* fault is an unset updateFrequency
CliConfigs ==
    {[ConfigOf(<<Repo("a", "main")>>) EXCEPT !.dependencies = <<Dep("go")>>],
     [ZeroConfig EXCEPT !.repositories = <<NewRepository("a", "", "main", Join("w", "a"),
                                                         ZeroTime)>>,
                        !.updateFrequency = DefaultUpdateFrequency],
     [ZeroConfig EXCEPT !.workspacePath = "w"]}

\* the files of SpecCli: among them one whose updateFrequency does not decode
InitCli ==
    /\ file \in {AbsentFile, BadFile,
                 UndecodedFile([ZeroConfig EXCEPT !.workspacePath = "w"])}
                \cup {FileOf(c) : c \in CliConfigs}
    /\ disk \in {{}, MkdirAll({}, Join("w", "a"))}
    /\ dirty = {}
    /\ gitBin = "git"
    /\ clock = MaxClock - 1
    /\ Idle

CliRepoAdd == \E name \in {"", "a"}, sv \in {"ok", "mkdir"} :
                 RepoAdd(TRUE, name, "u", "n", "none", sv)

CliRepoRemove == \E name \in {"a", "b"}, sv \in {"ok", "partial"} : RepoRemove(name, sv)

CliRepoRemoveMain ==
    \E name \in {"", "b"}, idx \in 0..1, resp \in {"y", "n"}, sv \in {"ok", "truncated"} :
       /\ (name /= "" => idx = 0 /\ resp = "n" /\ sv = "ok")
       /\ RepoRemoveMain(name, idx, resp, TRUE, sv)

CliSyncAll ==
    LET repos == Load(file).config.repositories
    IN  \E os \in [1..Len(repos) -> {"none", "fetch", "clone"}] :
           /\ \A i \in 1..Len(repos) : os[i] \in Reached(disk, repos[i].path)
           /\ RepoSyncAll(os)

CliInit ==
    \E workspace \in {"", "w"}, home \in {"", "home"}, sv \in {"ok", "mkdir"} :
       /\ (home = "" => sv = "ok")
       /\ InitCmd(workspace, home, sv)

\* init of the later revision, the installations succeeding or the download
\* failing
CliInitDeps ==
    LET ds == Load(file).config.dependencies
        n == IF Len(ds) = 0 THEN Len(DefaultDependencies) ELSE Len(ds)
    IN  \E workspace \in {"", "w"}, home \in {"", "home"}, installDeps \in BOOLEAN,
           sv \in {"ok", "mkdir"}, os \in [1..n -> {"none", "download"}] :
           /\ (home = "" => sv = "ok")
           /\ (~installDeps \/ sv /= "ok" => \A i \in 1..n : os[i] = "none")
           /\ \A i \in 1..n : os[i] \in {"none", "download"}
           /\ InitCmdDeps(workspace, home, installDeps, sv, os)

CliConfigShow == \E raw \in BOOLEAN : ConfigShow(raw)

CliDepsAdd ==
    \E given \in BOOLEAN, name \in {"", "go"}, resp \in {"", "n"}, sv \in {"ok", "mkdir"} :
       /\ (sv /= "ok" => resp = "n")
       /\ (~given => name = "" /\ resp = "n" /\ sv = "ok")
       /\ DepsAdd(given, name, "1", "s.tar.gz", resp, "none", sv)

CliDepsRemove ==
    \E name \in {"", "rust"}, selection \in 0..1, sv \in {"ok", "mkdir"} :
       /\ (name /= "" => selection = 0 /\ sv = "ok")
       /\ DepsRemove(name, selection, sv, TRUE)

\* a step of Install that is not reached cannot fail
CliDepsSync ==
    LET cfg == Load(file).config
        ds == cfg.dependencies
    IN  \E os \in [1..Len(ds) -> {"none", "download"}] :
           /\ \A i \in 1..Len(ds) :
                 Stat(disk, JoinPath(InstallDir(cfg), ds[i].name)) => os[i] = "none"
           /\ DepsSync(os)

NextCli ==
    \/ CliInit
    \/ CliInitDeps
    \/ CliRepoAdd
    \/ CliRepoRemove
    \/ CliRepoRemoveMain
    \/ RepoList
    \/ RepoSync
    \/ CliSyncAll
    \/ ConfigValidate
    \/ CliConfigShow
    \/ CliDepsAdd
    \/ DepsList
    \/ CliDepsRemove
    \/ CliDepsSync

SpecCli == InitCli /\ [][NextCli]_vars

(* ------------------------ the dependency commands -------------------- *)
DepNames == {"go", "node"}

DepsOf(ds) == [ConfigOf(<<>>) EXCEPT !.dependencies = ds]

InitDeps ==
    /\ file \in {BadFile, FileOf(DepsOf(<<>>)), FileOf(DepsOf(<<Dep("go"), Dep("node")>>))}
    /\ disk \in {{}, MkdirAll({}, <<"w", "deps", "go">>)}
    /\ dirty = {}
    /\ gitBin = "git"
    /\ clock = 0
    /\ Idle

\* the outcomes that differ for an Install of dependency dep under dir: a step
\* that is not reached cannot fail
InstallReached(dir, dep, force, d) ==
    IF Stat(MkdirAll(d, dir), JoinPath(dir, dep.name)) /\ ~force THEN {"none", "mkdir"}
    ELSE IF dep.source \in ZipSources THEN {"none", "mkdir", "download"}
    ELSE {"none", "mkdir", "download", "extract", "rename"}
         \cup (IF dep.source \in TarGzSources THEN {} ELSE {"create"})
         \cup (IF Stat(MkdirAll(d, dir), JoinPath(dir, dep.name)) THEN {"remove"} ELSE {})

DepsAddStep ==
    \E name \in DepNames \cup {""}, resp \in {"", "n"}, o \in {"none", "download"},
       sv \in {"ok", "mkdir"} :
       /\ (sv /= "ok" \/ resp = "n" \/ name = "" => o = "none")
       /\ o \in InstallReached(InstallDir(Load(file).config), Dep(name), FALSE, disk)
       /\ DepsAdd(TRUE, name, "1", "s.tar.gz", resp, o, sv)

DepsRemoveStep ==
    \E name \in {"", "go", "rust"}, selection \in 0..1, sv \in {"ok", "mkdir"},
       rm \in BOOLEAN :
       /\ (name /= "" => selection = 0)
       /\ (sv /= "ok" => rm)
       /\ DepsRemove(name, selection, sv, rm)

DepsSyncStep ==
    LET cfg == Load(file).config
        ds == cfg.dependencies
    IN  \E os \in [1..Len(ds) -> {"none", "download", "rename"}] :
           /\ \A i \in 1..Len(ds) :
                 os[i] \in InstallReached(InstallDir(cfg), ds[i], FALSE, disk)
           /\ DepsSync(os)

\* m.Install(dep, force) on the manager of w/deps: ret keeps the error and
\* whether the dependency was installed when the call started
CallInstall(dep, force, o) ==
    LET dir == Join("w", "deps")
        ins == Install(dir, dep, force, disk, o)
    IN  /\ Ran([dep |-> dep, force |-> force, o |-> o], "Install",
               IF ins.err /= "" THEN 1 ELSE 0, <<>>, <<>>, 0, 0, mem)
        /\ ret' = [err |-> ins.err, present |-> Stat(disk, JoinPath(dir, dep.name))]
        /\ disk' = ins.disk
        /\ UNCHANGED <<file, gitBin, clock>>

InstallStep ==
    \E name \in {"node"}, source \in Sources, force \in BOOLEAN, o \in InstallOutcomes :
       /\ o \in InstallReached(Join("w", "deps"), NewDependency(name, "1", source),
                                force, disk) \cup {"chmod"}
       /\ CallInstall(NewDependency(name, "1", source), force, o)

NextDeps ==
    \/ DepsAddStep
    \/ DepsList
    \/ DepsRemoveStep
    \/ DepsSyncStep
    \/ InstallStep

SpecDeps == InitDeps /\ [][NextDeps]_vars

(* ----------------------- repos remove, both variants ----------------- *)
RemoveConfig ==
    [repositories |-> <<Repo("a", "main"), Repo("b", ""), Repo("c", "dev")>>,
     tools |-> <<[name |-> "nvim", configPath |-> "c", backupPath |-> "b"]>>,
     dependencies |-> <<Dep("go")>>,
     updateFrequency |-> DefaultUpdateFrequency,
     workspacePath |-> "w"]

InitRemove ==
    /\ file \in {FileOf(RemoveConfig), AbsentFile}
    /\ disk \in {{}, MkdirAll(MkdirAll({}, <<"w", "b", "src">>), Join("w", "c"))}
    /\ dirty = {}
    /\ gitBin = "git"
    /\ clock = 0
    /\ Idle

RemoveByNameStep ==
    \E name \in {"", "a", "b", "c", "x"}, sv \in SaveOutcomes \cup {PrefixOutcome(8)} :
       RepoRemove(name, sv)

RemoveMainStep ==
    \E name \in {"", "b", "c", "x"}, idx \in 0..2, resp \in {"y", "n"}, rm \in BOOLEAN,
       sv \in {"ok", "mkdir"} :
       /\ (name /= "" => idx = 0)
       /\ (resp = "n" => rm)
       /\ RepoRemoveMain(name, idx, resp, rm, sv)

NextRemove ==
    \/ RemoveByNameStep
    \/ RemoveMainStep

SpecRemove == InitRemove /\ [][NextRemove]_vars

(* ------------- repos add and repos remove under failing writes -------- *)
\* the Config that repos add --name name --url u saves
AddedConfig(name) ==
    LET cfg == Load(file).config
    IN  [cfg EXCEPT !.repositories =
            Append(@, NewRepository(name, "u", "main", Join(cfg.workspacePath, name), Now))]

\* the Config that repos remove --name name saves
RemovedConfig(name) ==
    LET cfg == Load(file).config
        i == FirstIndex(cfg.repositories, name)
    IN  IF i = 0 THEN cfg ELSE [cfg EXCEPT !.repositories = RemoveAt(@, i)]

InitPartial ==
    /\ file \in {AbsentFile, FileOf(ConfigOf(<<Repo("a", "dev")>>))}
    /\ disk = {}
    /\ dirty = {}
    /\ gitBin = "git"
    /\ clock = 0
    /\ Idle

\* repos add whose write stops anywhere or completes, the clone declined
PartialAddStep ==
    \E name \in {"a"} :
       \E sv \in {"ok", "truncated"} \cup PrefixesOf(AddedConfig(name))
                 \cup TornsOf(AddedConfig(name)) :
          /\ (Load(file).err \/ FirstIndex(Load(file).config.repositories, name) /= 0)
             => sv = "ok"
          /\ RepoAdd(TRUE, name, "u", IF sv = "ok" THEN "n" ELSE "", "none", sv)

\* repos remove whose write stops anywhere or completes
PartialRemoveStep ==
    \E name \in {"a"} :
       \E sv \in {"ok", "truncated"} \cup PrefixesOf(RemovedConfig(name))
                 \cup TornsOf(RemovedConfig(name)) :
          /\ (Load(file).err \/ FirstIndex(Load(file).config.repositories, name) = 0)
             => sv = "ok"
          /\ RepoRemove(name, sv)

NextPartial ==
    \/ PartialAddStep
    \/ PartialRemoveStep
    \/ CallLoad

SpecPartial == InitPartial /\ [][NextPartial]_vars

(* ------------------- Manager.Save and Manager.Load alone -------------- *)
SeqsUpTo(S, n) == UNION {[1..k -> S] : k \in 0..n}

\* m.SetConfig(arg); m.Save()
CallSave(sv) ==
    /\ Ran(arg, "Save", IF sv = "ok" THEN 0 ELSE 1, <<>>, <<>>, 0, 1, arg)
    /\ file' = WriteFile(file, arg, sv)
    /\ UNCHANGED <<disk, gitBin, clock, ret>>

Durations == {-3661, 0, 59, 3600, 3661, DefaultUpdateFrequency}

\* a first repository: a time of time.Now() is in the zone of the machine and
\* has a monotonic reading, a loaded one is here in UTC
RoundTripRepos ==
    {NewRepository("a", "u", bp[1], bp[2],
                   [t |-> t, mono |-> m, off |-> IF m THEN ZoneOffset ELSE 0]) :
        bp \in {<<"", <<>>>>, <<"main", Join("w", "a")>>}, t \in 0..MaxTick,
        m \in BOOLEAN}

\* the lists of repositories handed to Save; more are the repositories that
\* follow the first one in a list
RoundTripSeqs ==
    LET more == {NewRepository("b", "u", "main", Join("w", "b"), ZeroTime),
                 NewRepository("c", "u", "dev", Join("w", "c"),
                               [t |-> MaxTick, mono |-> FALSE, off |-> ZoneOffset])}
    IN  {rs \in SeqsUpTo(RoundTripRepos \cup more, MaxRoundTripRepos) :
            /\ Len(rs) >= 1 => rs[1] \in RoundTripRepos
            /\ \A i \in 2..Len(rs) : rs[i] \in more}

\* the lists of tools and of dependencies handed to Save: of no, one and two
\* elements, and two elements in either order
RoundTripLists ==
    LET T == <<[name |-> "nvim", configPath |-> "", backupPath |-> "b"],
               [name |-> "tmux", configPath |-> "c", backupPath |-> ""]>>
        D == <<[name |-> "go", version |-> "1.21.0", source |-> "s", path |-> ""],
               [name |-> "node", version |-> "", source |-> "", path |-> "p"]>>
    IN  {<<<<>>, <<>>>>, <<<<T[1]>>, D>>, <<T, <<D[2], D[1]>>>>, <<<<T[2], T[1]>>, <<D[1]>>>>}

\* the Configs handed to Save, repositories being rs
RoundTripConfigs(rs) ==
    {[repositories |-> rs, tools |-> l[1], dependencies |-> l[2],
      updateFrequency |-> f, workspacePath |-> w] :
        l \in RoundTripLists, f \in Durations, w \in Workspaces}

InitRoundTrip ==
    /\ file = AbsentFile
    /\ disk = {}
    /\ dirty = {}
    /\ gitBin = "git"
    /\ clock = 0
    /\ cmd = "none"
    /\ exit = 0
    /\ calls = <<>>
    /\ out = <<>>
    /\ loads = 0
    /\ saves = 0
    /\ mem = ZeroConfig
    /\ \E rs \in RoundTripSeqs : arg \in RoundTripConfigs(rs)
    /\ ret = <<>>

\* the stops of a failed write that SpecRoundTrip takes: inside one of the
\* first strings, before the last unit, and one of those that parse and do
\* not decode: inside the first key of the last repository of several,
\* inside the lastSync of the only repository, inside updateFrequency when
\* there is no repository
RoundTripCuts(c) ==
    LET n == Len(c.repositories)
        b == ListUnits("repository", SubSeq(c.repositories, 1, n - 1))
        top == CHOOSE k \in TornStops(c) : \A j \in TornStops(c) : j <= k
    IN  {PrefixOutcome(k) : k \in {5, ConfigUnits(c) - 1} \cap (1..ConfigUnits(c))}
        \cup {TornOutcome(IF n = 0 THEN top ELSE IF n = 1 THEN b + 1 ELSE b)}

NextRoundTrip ==
    \/ \E sv \in SaveOutcomes \cup RoundTripCuts(arg) : CallSave(sv)
    \/ CallLoad

SpecRoundTrip == InitRoundTrip /\ [][NextRoundTrip]_vars

(* -------------------------- Config.Validate alone --------------------- *)
\* c.Validate() of manager.go: ret is the list of errors
CallValidate ==
    /\ Ran(arg, "Validate", IF Validate(arg) = <<>> THEN 0 ELSE 1, <<>>, <<>>, 0, 0, arg)
    /\ ret' = Validate(arg)
    /\ UNCHANGED world

\* c.Validate() of the variant in types.go
CallValidateFirstError ==
    /\ Ran(arg, "Validate (types.go)", IF ValidateFirstError(arg) = <<>> THEN 0 ELSE 1,
           <<>>, <<>>, 0, 0, arg)
    /\ ret' = ValidateFirstError(arg)
    /\ UNCHANGED world

\* a complete repository, one with each required field missing, one with
\* two missing and one with none set
ValidateRepos ==
    {NewRepository("a", "u", "main", Join("w", "a"), ZeroTime),
     NewRepository("", "u", "main", Join("w", "a"), ZeroTime),
     NewRepository("a", "", "main", Join("w", "a"), ZeroTime),
     NewRepository("a", "u", "main", <<>>, ZeroTime),
     NewRepository("a", "u", "", Join("w", "a"), ZeroTime),
     NewRepository("b", "", "", Join("w", "b"), ZeroTime),
     NewRepository("", "", "", <<>>, ZeroTime)}

ValidateToolSet ==
    {[name |-> n, configPath |-> cp, backupPath |-> ""] :
        n \in {"", "nvim"}, cp \in {"", "c"}}

\* the Configs handed to Validate, repositories being rs and tools ts
ValidateConfigs(rs, ts) ==
    {[repositories |-> rs, tools |-> ts, dependencies |-> <<>>,
      updateFrequency |-> f, workspacePath |-> w] :
        f \in {-1, 0, 1}, w \in Workspaces}

InitValidate ==
    /\ file = AbsentFile
    /\ disk = {}
    /\ dirty = {}
    /\ gitBin = "git"
    /\ clock = 0
    /\ cmd = "none"
    /\ exit = 0
    /\ calls = <<>>
    /\ out = <<>>
    /\ loads = 0
    /\ saves = 0
    /\ mem = ZeroConfig
    /\ \E rs \in SeqsUpTo(ValidateRepos, MaxValidateRepos),
          ts \in SeqsUpTo(ValidateToolSet, MaxValidateTools) :
          arg \in ValidateConfigs(rs, ts)
    /\ ret = <<>>

NextValidate ==
    \/ CallValidate
    \/ CallValidateFirstError

SpecValidate == InitValidate /\ [][NextValidate]_vars

(* ============================== properties ============================ *)
IsEmptyConfig(c) ==
    /\ c.repositories = <<>>
    /\ c.tools = <<>>
    /\ c.dependencies = <<>>
    /\ c.workspacePath = ""
    /\ c.updateFrequency = 0

StoredRepositories == Unmarshal(file.doc).repositories

\* C1: Load on a path where no file exists returns no error and leaves the
\* manager with the zero Config; a command that only loads (repos list) then
\* ends with status 0.
C1_LoadMissingIsEmpty ==
    /\ (cmd = "Load" /\ ret.state = "absent") =>
          (~ret.err /\ exit = 0 /\ IsEmptyConfig(ret.config) /\ IsEmptyConfig(mem))
    /\ (cmd = "repos list" /\ file.state = "absent") =>
          (exit = 0 /\ loads = 1 /\ IsEmptyConfig(mem))

C1_Witness == cmd = "Load" /\ ret.state = "absent" /\ ~ret.err /\ loads = 1

RepositoryEqual(a, b) ==
    /\ a.name = b.name
    /\ a.url = b.url
    /\ a.branch = b.branch
    /\ a.path = b.path
    /\ TimeEqual(a.lastSync, b.lastSync)

ConfigEqual(a, b) ==
    /\ a.workspacePath = b.workspacePath
    /\ a.updateFrequency = b.updateFrequency
    /\ a.tools = b.tools
    /\ a.dependencies = b.dependencies
    /\ Len(a.repositories) = Len(b.repositories)
    /\ \A i \in 1..Len(a.repositories) :
          RepositoryEqual(a.repositories[i], b.repositories[i])

HasName(repos, name) == \E i \in 1..Len(repos) : repos[i].name = name

\* C3: repos add with the name of a repository of the loaded configuration
\* ends with a non-zero status, performs no Save, invokes no git command and
\* leaves the configuration file as it was.
C3_DuplicateAddRejected ==
    [][(cmd' = "repos add" /\ arg'.name /= ""
        /\ HasName(Load(file).config.repositories, arg'.name))
       => (exit' /= 0 /\ saves' = 0 /\ calls' = <<>> /\ file' = file)]_vars

C3_Witness ==
    /\ cmd = "repos add"
    /\ exit = 1
    /\ loads = 1
    /\ saves = 0
    /\ out = <<Msg("already exists", arg.name)>>
    /\ file.state = "ok"
    /\ HasName(StoredRepositories, arg.name)

\* C4: starting from a stored configuration with pairwise distinct names,
\* after any sequence of repos add and repos remove the stored configuration
\* never contains two repositories with the same name.
C4_NamesUnique ==
    file.state = "ok" =>
        \A i, j \in 1..Len(StoredRepositories) :
            i /= j => StoredRepositories[i].name /= StoredRepositories[j].name

(* ---- Config.Validate ---- *)
IsValidateCall == cmd \in {"Validate", "Validate (types.go)"}

RepoIncomplete(r) == r.name = "" \/ r.url = "" \/ r.path = <<>> \/ r.branch = ""

ToolIncomplete(t) == t.name = "" \/ t.configPath = ""

ExpectedCount(c) ==
    (IF c.workspacePath = "" THEN 1 ELSE 0)
    + (IF c.updateFrequency <= 0 THEN 1 ELSE 0)
    + Cardinality({i \in 1..Len(c.repositories) : RepoIncomplete(c.repositories[i])})
    + Cardinality({i \in 1..Len(c.tools) : ToolIncomplete(c.tools[i])})

\* position of an entry in the order workspacePath, updateFrequency,
\* repositories by index, tools by index
Rank(e, c) ==
    IF e.kind = "workspacePath" THEN 0
    ELSE IF e.kind = "updateFrequency" THEN 1
    ELSE IF e.kind = "repository" THEN 2 + e.index
    ELSE 2 + Len(c.repositories) + e.index

EntryIsDue(e, c) ==
    IF e.kind = "workspacePath" THEN c.workspacePath = ""
    ELSE IF e.kind = "updateFrequency" THEN c.updateFrequency <= 0
    ELSE IF e.kind = "repository"
         THEN e.index + 1 \in 1..Len(c.repositories)
              /\ RepoIncomplete(c.repositories[e.index + 1])
    ELSE e.index + 1 \in 1..Len(c.tools) /\ ToolIncomplete(c.tools[e.index + 1])

ReportAccumulates(report, c) ==
    /\ Len(report) = ExpectedCount(c)
    /\ \A k \in 1..Len(report) : EntryIsDue(report[k], c)
    /\ \A k, l \in 1..Len(report) : k < l => Rank(report[k], c) < Rank(report[l], c)

\* C5: Validate reports one entry for an empty workspacePath, one for a
\* non-positive updateFrequency, one per incomplete repository and one per
\* incomplete tool, in that order, and returns nil exactly when there is none.
C5_ValidateAccumulates == IsValidateCall => ReportAccumulates(ret, arg)

OneRepoMissingURL(c) ==
    /\ c.workspacePath = ""
    /\ Len(c.repositories) = 1
    /\ c.repositories[1].url = ""

\* C6 as stated: Validate of a Config with workspacePath "" and one
\* repository whose url is missing reports exactly two entries.
C6_TwoEntries == (cmd = "Validate" /\ OneRepoMissingURL(arg)) => Len(ret) = 2

\* C6 amended: Validate of a Config with workspacePath "", a positive
\* updateFrequency, no incomplete tool and one repository whose url is missing
\* reports exactly two entries: workspacePath, then that repository.
C6_TwoEntriesWhenRestIsValid ==
    (/\ cmd = "Validate"
     /\ OneRepoMissingURL(arg)
     /\ arg.updateFrequency > 0
     /\ \A i \in 1..Len(arg.tools) : ~ToolIncomplete(arg.tools[i]))
    => (/\ Len(ret) = 2
        /\ ret[1].kind = "workspacePath"
        /\ ret[2].kind = "repository"
        /\ ret[2].index = 0)

C6_Witness ==
    /\ cmd = "Validate"
    /\ OneRepoMissingURL(arg)
    /\ arg.updateFrequency > 0
    /\ arg.tools = <<>>
    /\ arg.repositories[1].name = "a"
    /\ arg.repositories[1].branch = "main"
    /\ Len(ret) = 2
    /\ ret[2].missing = <<"missing url">>

Complete(c) ==
    /\ c.workspacePath /= ""
    /\ c.updateFrequency > 0
    /\ \A i \in 1..Len(c.repositories) :
          /\ c.repositories[i].name /= ""
          /\ c.repositories[i].url /= ""
          /\ c.repositories[i].path /= <<>>
          /\ c.repositories[i].branch /= ""

\* C7: Validate returns nil only for a Config with a non-empty workspacePath,
\* a positive updateFrequency and name, url, path and branch set on every
\* repository.
C7_ValidOnlyIfComplete == (IsValidateCall /\ ret = <<>>) => Complete(arg)

(* ---- the sync driver ---- *)
\* C8: Update on a repository whose path is absent runs no fetch and no
\* rebase; when the clone command exits 0 it returns nil and the path exists,
\* when the clone command exits non-zero it returns an error and the path is
\* still absent.
C8_SyncAbsentClones ==
    (cmd = "Update" /\ ~ret.present) =>
        /\ \A k \in 1..Len(calls) : calls[k].op = "clone"
        /\ (calls /= <<>> /\ ExitOf(ret.o, "clone") = 0) =>
              (ret.err = "" /\ Stat(disk, arg.Path))
        /\ (calls /= <<>> /\ ExitOf(ret.o, "clone") /= 0) =>
              (ret.err /= "" /\ ~Stat(disk, arg.Path))

\* C9: Update on an existing path whose fetch exits non-zero returns the
\* fetch error and never invokes rebase.
C9_FetchFailureStops ==
    (cmd = "Update" /\ ret.present /\ ExitOf(ret.o, "fetch") /= 0) =>
        /\ ret.err = "failed to fetch updates"
        /\ exit /= 0
        /\ \A k \in 1..Len(calls) : calls[k].op /= "rebase"
        /\ Len(calls) = 1
        /\ calls[1] = GitCall("fetch", arg)

C9_Witness ==
    /\ cmd = "Update"
    /\ ret.present
    /\ ret.o = "fetch"
    /\ ret.err = "failed to fetch updates"
    /\ Len(calls) = 1

PathIndex(repos, p) == CHOOSE i \in 1..Len(repos) : repos[i].path = p

\* C10: repos sync-all announces every configured repository once, in
\* configuration order, reports each one as synced exactly when its own
\* Update succeeded whatever happened to the repositories before it, and
\* invokes git on the repositories in configuration order.
C10_BatchContinues ==
    [][(cmd' = "repos sync-all" /\ exit' = 0) =>
        LET repos == Load(file).config.repositories
        IN  /\ Len(out') = 2 * Len(repos)
            /\ \A i \in 1..Len(repos) :
                  /\ out'[2 * i - 1] = Msg("Syncing repository", repos[i].name)
                  /\ out'[2 * i] = Msg(IF arg'[i] = "none" THEN "Synced repository"
                                       ELSE "failed to sync repository", repos[i].name)
                  /\ Cardinality({k \in 1..Len(calls') :
                                     calls'[k].path = repos[i].path}) <= 2
            /\ \A k, l \in 1..Len(calls') :
                  k < l => PathIndex(repos, calls'[k].path)
                              <= PathIndex(repos, calls'[l].path)]_vars

C10_Witness ==
    /\ cmd = "repos sync-all"
    /\ exit = 0
    /\ Len(out) = 6
    /\ out[2].msg = "Synced repository"
    /\ out[4].msg = "failed to sync repository"
    /\ out[6].msg = "Synced repository"
    /\ out[6].name = "c"
\* C11: repos sync-all runs neither fetch nor rebase on a repository whose path
\* exists and whose working tree has uncommitted changes (IsClean is false).
ReportsDirty(path) ==
    /\ Stat(disk, path)
    /\ ~IsClean(New(path, "u", ""), dirty, gitBin, 0).clean

C11_DirtySkipped ==
    cmd = "repos sync-all" =>
       \A k \in 1..Len(calls) :
          calls[k].op \in {"fetch", "rebase"} => ~ReportsDirty(calls[k].path)

\* C12: after repos sync-all has synced a configured repository, the stored
\* configuration holds a lastSync for it that is not earlier than the time the
\* command started, and the command has saved the configuration.
ReportedSynced(o, name) == \E k \in 1..Len(o) : o[k] = Msg("Synced repository", name)

C12_LastSyncUpdated ==
    [][cmd' = "repos sync-all" =>
          \A i \in 1..Len(mem'.repositories) :
             ReportedSynced(out', mem'.repositories[i].name) =>
                /\ saves' = 1
                /\ file'.state = "ok"
                /\ i <= Len(Unmarshal(file'.doc).repositories)
                /\ Unmarshal(file'.doc).repositories[i].lastSync.t >= clock]_vars

\* C13: a Save is atomic: whether it succeeds or fails part-way, the file at
\* the configuration path afterwards holds the complete previous contents or the
\* complete new contents, never an empty or partial document.
C13_SaveAtomic ==
    [][saves' = 1 => (file' = file \/ file' = FileOf(mem'))]_vars

\* C14: init run when no configuration file exists creates it: afterwards the
\* file exists with workspacePath the --workspace value (or $HOME/dev) and
\* updateFrequency the 2-hour default.
C14_InitCreatesDefault ==
    [][(/\ cmd' = "init"
        /\ file.state = "absent"
        /\ arg'.home /= ""
        /\ arg'.sv = "ok")
       => (/\ exit' = 0
           /\ file'.state = "ok"
           /\ Unmarshal(file'.doc).workspacePath =
                 (IF arg'.workspace = "" THEN DefaultWorkspace ELSE arg'.workspace)
           /\ Unmarshal(file'.doc).updateFrequency = DefaultUpdateFrequency)]_vars

\* C15: when the loaded configuration fails Validate, init and config validate
\* end with a non-zero status after reporting every error, and the
\* configuration file is not written; when it is valid, config validate ends
\* with status 0.
C15_ValidationFailureIsFatal ==
    [][(cmd' \in {"init", "config validate"} /\ loads' = 1 /\ ~Load(file).err)
       => LET cfg == Load(file).config
          IN  /\ ExpectedCount(cfg) > 0 =>
                    (/\ exit' /= 0
                     /\ saves' = 0
                     /\ file' = file
                     /\ ReportAccumulates(ret', cfg))
              /\ (ExpectedCount(cfg) = 0 /\ cmd' = "config validate") => exit' = 0]_vars

C15_Witness ==
    /\ cmd = "init"
    /\ exit = 1
    /\ loads = 1
    /\ saves = 0
    /\ Len(ret) = 2
    /\ file.state = "absent"

\* C16: every CLI invocation (init, repos add/remove/list/sync-all, config
\* show/validate, deps add/remove/list/sync) loads the configuration at most
\* once and saves it at most once, and a Save comes after a Load that
\* succeeded.
CliCommands ==
    {"init", "repos add", "repos remove", "repos remove (main.go)", "repos list",
     "repos sync", "repos sync-all", "config show", "config validate",
     "deps add", "deps list", "deps remove", "deps sync"}

C16_OneLoadOneSave ==
    [][cmd' \in CliCommands =>
          /\ loads' <= 1
          /\ saves' <= 1
          /\ saves' = 1 => (loads' = 1 /\ ~Load(file).err)]_vars

C16_Witness ==
    /\ cmd = "deps remove"
    /\ exit = 0
    /\ loads = 1
    /\ saves = 1

\* C17: repos remove given a name that matches no repository of the loaded
\* configuration fails with a not-found error and a non-zero status, performs
\* no Save and leaves the configuration file unchanged.
C17_RemoveUnknownFails ==
    [][(/\ cmd' \in {"repos remove", "repos remove (main.go)"}
        /\ arg'.name /= ""
        /\ ~Load(file).err
        /\ ~HasName(Load(file).config.repositories, arg'.name))
       => (/\ exit' /= 0
           /\ out' = <<Msg("not found", arg'.name)>>
           /\ saves' = 0
           /\ file' = file)]_vars

C17_Witness ==
    /\ cmd = "repos remove"
    /\ arg.name = "b"
    /\ exit = 1
    /\ saves = 0
    /\ file.state = "ok"
    /\ Len(StoredRepositories) = 1

\* C18: deps sync, every step of every installation succeeding, leaves every
\* configured dependency installed, also when some of them were installed
\* before the command started.
C18_DepsSyncInstallsAll ==
    (/\ cmd = "deps sync"
     /\ loads = 1
     /\ \A i \in 1..Len(arg) : arg[i] = "none"
     /\ \A i \in 1..Len(mem.dependencies) : mem.dependencies[i].source \notin ZipSources)
    => \A i \in 1..Len(mem.dependencies) :
          Stat(disk, JoinPath(InstallDir(mem), mem.dependencies[i].name))

\* C19: repos sync attempts a clone (path absent) or a fetch and rebase (path
\* present) for every repository of the configuration.
C19_ReposSyncSyncsAll ==
    cmd = "repos sync" =>
       \A i \in 1..Len(Load(file).config.repositories) :
          LET repo == Load(file).config.repositories[i]
          IN  \E k \in 1..Len(calls) :
                 /\ calls[k].path = repo.path
                 /\ calls[k].op = IF Stat(disk, repo.path) THEN "fetch" ELSE "clone"

\* C20: Load returns an error for a file that cannot be read (other than a
\* missing one), parsed or decoded, and every command that loads the configuration then
\* ends with a non-zero status without saving or running anything, the file
\* being left as it was.
C20_LoadFailureAborts ==
    [][(cmd' \in CliCommands /\ loads' = 1 /\ file.state \in {"bad", "undecodable"})
       => (/\ Load(file).err
           /\ exit' /= 0
           /\ saves' = 0
           /\ calls' = <<>>
           /\ out' = <<Msg("failed to load config", "")>>
           /\ file' = file
           /\ disk' = disk)]_vars

C20_Witness ==
    /\ cmd = "deps sync"
    /\ file.state = "undecodable"
    /\ mem = Load(file).config
    /\ mem /= ZeroConfig
    /\ exit = 1
    /\ loads = 1
    /\ saves = 0

\* C21: Update on an existing path runs fetch, then rebase against
\* origin/<branch>, each at most once; rebase runs only after fetch exited 0,
\* nil is returned exactly when both exited 0, and the error of a failed rebase
\* differs from the error of a failed fetch.
C21_FetchThenRebaseOnce ==
    (cmd = "Update" /\ ret.present) =>
        /\ calls \in {<<GitCall("fetch", arg)>>,
                      <<GitCall("fetch", arg), GitCall("rebase", arg)>>}
        /\ Len(calls) = 2 <=> ExitOf(ret.o, "fetch") = 0
        /\ ret.err = "" <=> (ExitOf(ret.o, "fetch") = 0 /\ ExitOf(ret.o, "rebase") = 0)
        /\ ExitOf(ret.o, "fetch") /= 0 => ret.err = "failed to fetch updates"
        /\ (ExitOf(ret.o, "fetch") = 0 /\ ExitOf(ret.o, "rebase") /= 0)
              => ret.err = "failed to rebase"
        /\ Stat(disk, arg.Path)

C21_Witness ==
    /\ cmd = "Update"
    /\ ret.present
    /\ ret.o = "rebase"
    /\ ret.err = "failed to rebase"
    /\ Len(calls) = 2
    /\ arg.Branch = "dev"

\* C22: Clone on a path that exists returns an error without invoking git
\* clone and without creating a directory; git clone is invoked only when the
\* path is absent.
C22_CloneRefusesExistingPath ==
    [][cmd' = "Clone" =>
          /\ Stat(disk, arg'.Path) =>
                (/\ ret'.err = "path already exists"
                 /\ calls' = <<>>
                 /\ disk' = disk)
          /\ calls' /= <<>> =>
                (~Stat(disk, arg'.Path) /\ calls' = <<GitCall("clone", arg')>>)]_vars

C22_Witness ==
    /\ cmd = "Clone"
    /\ ret.present
    /\ ret.err = "path already exists"
    /\ calls = <<>>
    /\ exit = 1

\* C23: the record repos add appends has path workspacePath joined with name
\* and branch "main"; a driver made by git.New from a record with an empty
\* branch works on "main", one made from a non-empty branch on that branch.
C23_AddDefaults ==
    [][/\ (cmd' = "repos add" /\ saves' = 1) =>
             LET cfg == Load(file).config
                 n == Len(mem'.repositories)
                 added == mem'.repositories[n]
             IN  /\ n = Len(cfg.repositories) + 1
                 /\ added.name = arg'.name
                 /\ added.url = arg'.url
                 /\ added.path = Join(cfg.workspacePath, arg'.name)
                 /\ added.branch = "main"
                 /\ \A k \in 1..Len(calls') :
                       calls'[k] = GitCall("clone", [Path |-> added.path, URL |-> added.url,
                                                     Branch |-> "main"])
       /\ (cmd' = "repos sync-all" /\ exit' = 0) =>
             LET repos == Load(file).config.repositories
             IN  \A k \in 1..Len(calls') :
                    LET repo == repos[PathIndex(repos, calls'[k].path)]
                    IN  calls'[k].branch = IF repo.branch = "" THEN "main" ELSE repo.branch]_vars

C23_Witness ==
    /\ cmd = "repos add"
    /\ exit = 0
    /\ saves = 1
    /\ file.state = "ok"
    /\ Len(StoredRepositories) = 1
    /\ StoredRepositories[1].path = <<"w", "a">>
    /\ StoredRepositories[1].branch = "main"
    /\ Len(calls) = 1

\* C24: IsClean returns true exactly when git status exits 0 with empty
\* output, false and no error when it exits 0 with some output, false and an
\* error when it fails; it changes neither the repository nor the
\* configuration.
C24_IsCleanReadsStatus ==
    [][cmd' = "IsClean" =>
          LET output == GitStatusOutput(gitBin, dirty, arg')
          IN  /\ calls' = <<GitCall("status", arg')>>
              /\ ret'.clean <=> (ret'.status = 0 /\ output = <<>>)
              /\ (ret'.status = 0 /\ output /= <<>>) => (~ret'.clean /\ ret'.err = "")
              /\ ret'.status = 0 => ret'.err = ""
              /\ ret'.status /= 0 => (~ret'.clean /\ ret'.err /= "")
              /\ UNCHANGED <<file, disk, dirty>>]_vars

C24_Witness ==
    /\ cmd = "IsClean"
    /\ ret.status = 0
    /\ ~ret.clean
    /\ ret.err = ""
    /\ arg.Path \in dirty

\* C25: every repository entry of a validation report carries the index and
\* the name of its repository and lists all its missing required fields, in
\* the order name, url, path, branch; every tool entry carries the index and
\* the name of its tool.
MissingOfRepository(r) ==
    LET IsMissing(l) == \/ (l = "missing name" /\ r.name = "")
                        \/ (l = "missing url" /\ r.url = "")
                        \/ (l = "missing path" /\ r.path = <<>>)
                        \/ (l = "missing branch" /\ r.branch = "")
    IN  SelectSeq(<<"missing name", "missing url", "missing path", "missing branch">>,
                  IsMissing)

MissingOfTool(t) ==
    LET IsMissing(l) == \/ (l = "missing name" /\ t.name = "")
                        \/ (l = "missing configPath" /\ t.configPath = "")
    IN  SelectSeq(<<"missing name", "missing configPath">>, IsMissing)

C25_EntriesAreTagged ==
    cmd = "Validate" =>
       /\ \A k \in 1..Len(ret) :
             /\ ret[k].kind = "repository" =>
                   /\ ret[k].index + 1 \in 1..Len(arg.repositories)
                   /\ ret[k].name = arg.repositories[ret[k].index + 1].name
                   /\ ret[k].missing = MissingOfRepository(arg.repositories[ret[k].index + 1])
                   /\ ret[k].missing /= <<>>
             /\ ret[k].kind = "tool" =>
                   /\ ret[k].index + 1 \in 1..Len(arg.tools)
                   /\ ret[k].name = arg.tools[ret[k].index + 1].name
                   /\ ret[k].missing = MissingOfTool(arg.tools[ret[k].index + 1])
                   /\ ret[k].missing /= <<>>
       /\ \A k, l \in 1..Len(ret) :
             (k /= l /\ ret[k].kind = ret[l].kind) => ret[k].index /= ret[l].index

C25_Witness ==
    /\ cmd = "Validate"
    /\ \E k \in 1..Len(ret) :
          /\ ret[k].kind = "repository"
          /\ ret[k].index = 1
          /\ ret[k].name = "b"
          /\ ret[k].missing = <<"missing url", "missing branch">>
    /\ \E k \in 1..Len(ret) : ret[k].kind = "tool" /\ ret[k].name = "nvim"

\* C26 as stated: repos add saves before it clones: when the clone is declined
\* or fails, the new repository is in the stored configuration with its path
\* absent.
AddWithoutClone ==
    /\ cmd' = "repos add"
    /\ arg'.name /= ""
    /\ arg'.url /= ""
    /\ ~Load(file).err
    /\ ~HasName(Load(file).config.repositories, arg'.name)
    /\ arg'.sv = "ok"
    /\ (arg'.resp = "n" \/ exit' /= 0)

AddedIsStored ==
    /\ saves' = 1
    /\ file'.state = "ok"
    /\ HasName(Unmarshal(file'.doc).repositories, arg'.name)

AddedPath == Join(Load(file).config.workspacePath, arg'.name)

C26_SavedBeforeClone ==
    [][AddWithoutClone => (AddedIsStored /\ ~Stat(disk', AddedPath))]_vars

\* C26 amended: repos add saves before it clones: when the clone is declined
\* or fails, the new repository is in the stored configuration, its path is
\* absent if it was absent before the command, and a later repos sync-all
\* attempts one clone, and neither fetch nor rebase, for every repository
\* whose path is absent at its turn.
C26_SavedBeforeCloneOfAbsentPath ==
    [][/\ AddWithoutClone =>
             (AddedIsStored /\ (~Stat(disk, AddedPath) => ~Stat(disk', AddedPath)))
       /\ (cmd' = "repos sync-all" /\ exit' = 0) =>
             LET repos == Load(file).config.repositories
             IN  \A i \in 1..Len(repos) :
                    ~Stat(disk, repos[i].path) =>
                       LET own == SelectSeq(calls', LAMBDA c : c.path = repos[i].path)
                       IN  own = IF arg'[i] = "mkdir" THEN <<>>
                                 ELSE <<GitCall("clone",
                                                New(repos[i].path, repos[i].url,
                                                    repos[i].branch))>>]_vars

C26_Witness ==
    /\ cmd = "repos sync-all"
    /\ file.state = "ok"
    /\ Len(StoredRepositories) = 1
    /\ StoredRepositories[1].lastSync /= ZeroTime
    /\ calls = <<GitCall("clone", New(<<"w", "a">>, "u", "main"))>>

\* C27: whenever init reaches its Save, the workspacePath and updateFrequency
\* it writes are the ones it loaded; init on a valid configuration leaves
\* these two fields and the repository list unchanged.
C27_InitWritesWhatItLoaded ==
    [][(cmd' = "init" /\ saves' = 1) =>
          LET cfg == Load(file).config
          IN  /\ mem'.workspacePath = cfg.workspacePath
              /\ mem'.updateFrequency = cfg.updateFrequency
              /\ mem'.repositories = cfg.repositories
              /\ arg'.sv = "ok" =>
                    (/\ file'.state = "ok"
                     /\ Unmarshal(file'.doc).workspacePath = cfg.workspacePath
                     /\ Unmarshal(file'.doc).updateFrequency = cfg.updateFrequency
                     /\ Unmarshal(file'.doc).repositories = cfg.repositories)]_vars

C27_Witness ==
    /\ cmd = "init"
    /\ exit = 0
    /\ saves = 1
    /\ arg.workspace = ""
    /\ file.state = "ok"
    /\ Unmarshal(file.doc).workspacePath = "w"
    /\ Len(StoredRepositories) = 1

\* C28: a successful repos remove by name deletes exactly one entry, the first
\* one with that name, from the stored configuration; every other repository
\* is kept unchanged and in the same order, and tools, dependencies,
\* workspacePath and updateFrequency are unchanged; the repos.go variant never
\* deletes anything on disk.
C28_RemoveDeletesOneEntry ==
    [][(/\ cmd' \in {"repos remove", "repos remove (main.go)"}
        /\ arg'.name /= ""
        /\ exit' = 0)
       => LET old == Load(file).config
              new == Load(file').config
              n == Len(old.repositories)
          IN  /\ file'.state = "ok"
              /\ \E i \in 1..n :
                    /\ old.repositories[i].name = arg'.name
                    /\ \A j \in 1..(i - 1) : old.repositories[j].name /= arg'.name
                    /\ Len(new.repositories) = n - 1
                    /\ \A j \in 1..(i - 1) : new.repositories[j] = old.repositories[j]
                    /\ \A j \in i..(n - 1) : new.repositories[j] = old.repositories[j + 1]
              /\ new.tools = old.tools
              /\ new.dependencies = old.dependencies
              /\ new.workspacePath = old.workspacePath
              /\ new.updateFrequency = old.updateFrequency
              /\ cmd' = "repos remove" => disk' = disk]_vars

C28_Witness ==
    /\ cmd = "repos remove (main.go)"
    /\ arg.name = "b"
    /\ exit = 0
    /\ file.state = "ok"
    /\ Len(StoredRepositories) = 2
    /\ StoredRepositories[1].name = "a"
    /\ StoredRepositories[2].name = "c"
    /\ <<"w", "b">> \notin disk

\* C29: a path that exists stays in existence through Clone, Update, IsClean
\* and repos sync-all, whether they succeed or fail, and Update on an existing
\* path never invokes git clone.
C29_PresentIsStable ==
    [][cmd' \in {"Clone", "Update", "IsClean", "repos sync-all"} =>
          /\ \A p \in disk : p \in disk'
          /\ (cmd' = "Update" /\ Stat(disk, arg'.Path)) =>
                \A k \in 1..Len(calls') : calls'[k].op /= "clone"
          /\ cmd' = "repos sync-all" =>
                \A k \in 1..Len(calls') :
                   calls'[k].op = "clone" => ~Stat(disk, calls'[k].path)]_vars

C29_Witness ==
    /\ cmd = "repos sync-all"
    /\ Len(calls) = 5
    /\ calls[1].op = "fetch"
    /\ calls[2].op = "rebase"
    /\ calls[3].op = "clone"
    /\ out[4].msg = "failed to sync repository"
    /\ Stat(disk, <<"w", "a">>)
    /\ ~Stat(disk, <<"w", "b">>)

\* C30: repos sync-all never writes the configuration file, whatever mix of
\* successes and failures its repositories give, and it ends after one pass
\* over the repository list.
C30_SyncAllLeavesConfig ==
    [][cmd' = "repos sync-all" =>
          LET repos == Load(file).config.repositories
          IN  /\ file' = file
              /\ saves' = 0
              /\ loads' = 1
              /\ mem' = Load(file).config
              /\ exit' = 0 =>
                    /\ Cardinality({k \in 1..Len(out') :
                                       out'[k].msg = "Syncing repository"}) = Len(repos)
                    /\ Len(calls') <= 2 * Len(repos)]_vars

C30_Witness ==
    /\ cmd = "repos sync-all"
    /\ exit = 0
    /\ saves = 0
    /\ file.state = "ok"
    /\ Len(StoredRepositories) = 3
    /\ out[2].msg = "failed to sync repository"
    /\ out[4].msg = "Synced repository"
    /\ calls /= <<>>
====
